---- MODULE Spec2Model ----
(***************************************************************************)
(* Odin-DNS: the UDP query server (internal/server/server.go, the version  *)
(* with metrics and cache), the wire codec (parser/packer), the Redis      *)
(* cache-through lookup and the metrics ingestion channel.                 *)
(*                                                                         *)
(* Octets are integers 0..255, Go strings and byte slices are sequences of *)
(* octets, Go offsets are 0-based (At(buffer, i) is buffer[i]).            *)
(***************************************************************************)
EXTENDS Integers, Sequences, FiniteSets, TLC

(* ------------------------------ bounds -------------------------------- *)

\* config.BUFFER_SIZE: the length of the one receive buffer (512 by default).
BufferSize == 82

\* How many datagrams the receive loop reads in a checked behaviour.
MaxDatagrams == 2

\* config.CLICKHOUSE_MAX_BATCH_SIZE (1000 by default).
BatchSize == 2

VARIABLES
    pc,              \* position of the receive loop of StartServer
    crash,           \* why the process died ("none" while it runs)
    ingestionDriver, \* "ok", or "nil" when NewClickHouseIngestionDriver failed
    buffer,          \* the receive buffer, reused for every datagram
    datagram,        \* the datagram of the current iteration (<<>> before the first)
    nread,           \* datagrams read so far
    readOk,          \* outcome of the last ReadFromUDP
    parsed,          \* result of ParseRequest(buffer) in this iteration
    looked,          \* result of the cache driver's lookup in this iteration, and
                     \* which of its calls to Redis and MySQL failed
    response,        \* the DNSRequest value the iteration composes as response
    currentMetric,   \* the DNSMetric the iteration composes
    sendOutcome,     \* "none", "sent", "packerr" or "writeerr" for this iteration
    lastSent,        \* the octets written to the socket in this iteration (<<>> if none)
    collects,        \* Collect calls made in this iteration
    submitted,       \* the sample passed to Collect in this iteration (Nil if none)
    droppedQR,       \* the iteration ended at the QR check
    path,            \* the branch of the iteration that composed the response
    metricBuffer,    \* the channel of the ingestion driver
    cache,           \* Redis: cache key -> payload
    store,           \* MySQL zone_entries: key -> row
    \* the codec on its own (PackResponse and ParseRequest as pure functions)
    message,         \* the DNSRequest given to PackResponse
    packed,          \* what PackResponse returned for message
    reparsed,        \* what ParseRequest returned for the octets of packed
    wire,            \* the octets given to ParseRequest
    unpacked,        \* what ParseRequest returned for wire
    \* the cache driver on its own (lookups and record operations)
    zones,           \* MySQL zones: the rows, each with its deleted_at state
    op,              \* the last call made on the cache driver and what it returned
    missed,          \* per key: what the last lookup that read the store returned
    nops,            \* calls made on the cache driver so far
    \* the ingestion driver on its own (producers, batching goroutine, Close)
    batch,           \* the batch ProcessMetricsBatch has collected
    consumer,        \* position of ProcessMetricsBatch: "select" or "write"
    remainingBatch,  \* the batch Close collects
    closer,          \* position of Close ("idle" until it is called)
    sink,            \* the ClickHouse connection: closed, blocked, the batches it
                     \* has stored, and the batch of every Send call made on it
    submits,         \* Collect calls made so far
    drops,           \* Collect calls so far that took the default case
    atClose,         \* the content of the channel when Close was called
    \* the expiration of a cache entry on its own (time.Duration arithmetic)
    recordTTL,       \* the four octets of a record's TTL (uint32, big-endian)
    cacheExpiry,     \* the expiration given to Set for it, and by which function
    \* the flags word on its own (ToUint16 and ParseFlags as pure functions)
    flagBundle,      \* a DNSHeaderFlags value
    flagRound,       \* its ToUint16 word and the ParseFlags of that word
    \* the rate limiter of the API on its own (middleware.go)
    requests,        \* rl.requests: client key -> the times of its counted requests
    clock,           \* time.Now()
    handlers,        \* per request: where its goroutine is in the middleware,
                     \* its ip, its now, the slice it read, the status it got
    apiServer        \* "serving", or "fatal" after the runtime stopped the process

serverVars == <<pc, crash, ingestionDriver, buffer, datagram, nread, readOk, parsed,
                looked, response, currentMetric, sendOutcome, lastSent, collects,
                submitted, droppedQR, path, metricBuffer, cache, store>>

codecVars == <<message, packed, reparsed, wire, unpacked>>

layerVars == <<zones, op, missed, nops>>

\* the variables the server loop leaves alone
pipeVars == <<batch, consumer, remainingBatch, closer, sink, submits, drops, atClose>>

ttlVars == <<recordTTL, cacheExpiry>>

flagVars == <<flagBundle, flagRound>>

limitVars == <<requests, clock, handlers, apiServer>>

restVars == <<codecVars, layerVars, pipeVars, ttlVars, flagVars, limitVars>>

vars == <<serverVars, restVars>>

(* ----------------------------- octets --------------------------------- *)

At(buf, i) == buf[i + 1]

\* buf[lo:hi]
Slice(buf, lo, hi) == SubSeq(buf, lo + 1, hi)

\* big-endian uint16 / uint32, as binary.Write(buf, binary.BigEndian, v)
U16(v) == << (v \div 256) % 256, v % 256 >>

U32(v) == << (v \div 16777216) % 256, (v \div 65536) % 256, (v \div 256) % 256, v % 256 >>

Dot == 46

(* ------------------------ flags (types.go, util) ---------------------- *)

B(b) == IF b THEN 1 ELSE 0

Bit(v, k) == (v \div (2 ^ k)) % 2 = 1

\* ToUint16 as it would be without its last statement, flags |= RCode & 0xF
ToUint16_WithoutRCode(f) ==
    B(f.QR) * 32768
    + (f.Opcode % 16) * 2048
    + B(f.AA) * 1024
    + B(f.TC) * 512
    + B(f.RD) * 256
    + B(f.RA) * 128
    + B(Bit(f.Z % 8, 2)) * 64
    + B(Bit(f.Z % 8, 1) \/ f.AD) * 32
    + B(Bit(f.Z % 8, 0) \/ f.CD) * 16

\* func (f *DNSHeaderFlags) ToUint16() uint16
\* Z is or-ed into bits 6..4, AD into bit 5 and CD into bit 4.
ToUint16(f) ==
    B(f.QR) * 32768
    + (f.Opcode % 16) * 2048
    + B(f.AA) * 1024
    + B(f.TC) * 512
    + B(f.RD) * 256
    + B(f.RA) * 128
    + B(Bit(f.Z % 8, 2)) * 64
    + B(Bit(f.Z % 8, 1) \/ f.AD) * 32
    + B(Bit(f.Z % 8, 0) \/ f.CD) * 16
    + (f.RCode % 16)

\* ParseFlags as it would be with the QR mask 0x4000 in place of 0x8000
ParseFlags_WrongQRMask(flags) ==
    [ QR     |-> Bit(flags, 14),
      Opcode |-> (flags \div 2048) % 16,
      AA     |-> Bit(flags, 10),
      TC     |-> Bit(flags, 9),
      RD     |-> Bit(flags, 8),
      RA     |-> Bit(flags, 7),
      Z      |-> (flags \div 16) % 8,
      AD     |-> FALSE,
      CD     |-> FALSE,
      RCode  |-> flags % 16 ]

\* func ParseFlags(flags uint16) odintypes.DNSHeaderFlags (AD and CD are left false)
ParseFlags(flags) ==
    [ QR     |-> Bit(flags, 15),
      Opcode |-> (flags \div 2048) % 16,
      AA     |-> Bit(flags, 10),
      TC     |-> Bit(flags, 9),
      RD     |-> Bit(flags, 8),
      RA     |-> Bit(flags, 7),
      Z      |-> (flags \div 16) % 8,
      AD     |-> FALSE,
      CD     |-> FALSE,
      RCode  |-> flags % 16 ]

\* the zero value of DNSHeaderFlags
ZeroFlags ==
    [ QR |-> FALSE, Opcode |-> 0, AA |-> FALSE, TC |-> FALSE, RD |-> FALSE,
      RA |-> FALSE, Z |-> 0, AD |-> FALSE, CD |-> FALSE, RCode |-> 0 ]

(* ----------------------- parser (util, parser) ------------------------ *)

\* name[:len(name)-1] when name ends in '.'
StripDot(name) ==
    IF Len(name) > 0 /\ name[Len(name)] = Dot
    THEN SubSeq(name, 1, Len(name) - 1)
    ELSE name

Max(i, j) == IF i >= j THEN i ELSE j

\* Every result of the parser carries `top`, the highest buffer position the
\* call has read (-1 when it read nothing).
NameErr(originalOffset, top) ==
    [kind |-> "err", name |-> <<>>, offset |-> originalOffset, top |-> top]

NameOverflow == [kind |-> "overflow", name |-> <<>>, offset |-> 0, top |-> -1]

\* func ParseDomainName(buf []byte, offset int) (string, int, error): the
\* for loop, entered with the name read so far.  The function follows a
\* pointer by calling itself; `active` holds the offsets of the calls that
\* are on the stack.  A call for an offset that is already on the stack
\* repeats itself for ever: the goroutine's stack overflows ("overflow").
RECURSIVE ParseDomainNameFrom(_, _, _, _, _, _)
ParseDomainNameFrom(buf, offset, name, originalOffset, active, top) ==
    IF offset >= Len(buf) THEN NameErr(originalOffset, top)
    ELSE
      LET length == At(buf, offset)
          off1   == offset + 1
          top1   == Max(top, offset)
      IN  IF length = 0
          THEN [kind |-> "ok", name |-> StripDot(name), offset |-> off1, top |-> top1]
          ELSE IF length >= 192      \* (length & 0xC0) == 0xC0
          THEN IF off1 >= Len(buf) THEN NameErr(originalOffset, top1)
               ELSE
                 LET pointerOffset == (length % 64) * 256 + At(buf, off1)
                     off2 == off1 + 1
                     top2 == Max(top1, off1)
                 IN  IF pointerOffset >= Len(buf) THEN NameErr(originalOffset, top2)
                     ELSE IF pointerOffset \in active THEN NameOverflow
                     ELSE
                       LET r == ParseDomainNameFrom(buf, pointerOffset, <<>>,
                                    pointerOffset, active \cup {pointerOffset}, top2)
                       IN  IF r.kind = "overflow" THEN NameOverflow
                           ELSE IF r.kind = "err" THEN NameErr(originalOffset, r.top)
                           ELSE [kind |-> "ok", name |-> StripDot(name \o r.name),
                                 offset |-> off2, top |-> r.top]
          ELSE IF off1 + length > Len(buf) THEN NameErr(originalOffset, top1)
          ELSE ParseDomainNameFrom(buf, off1 + length,
                   name \o Slice(buf, off1, off1 + length) \o <<Dot>>,
                   originalOffset, active, Max(top1, off1 + length - 1))

ParseDomainName(buf, offset) ==
    ParseDomainNameFrom(buf, offset, <<>>, offset, {offset}, -1)

\* buf[i] when i is a position of buf; beyond it Go panics, and the position
\* counts as read
Octet(buf, i) == IF i < Len(buf) THEN At(buf, i) ELSE 0

\* ParseQuestionSection as it would be without the check that the type and
\* class fields lie within the buffer
ParseQuestionSection_NoTypeClassCheck(buf, offset) ==
    IF offset + 4 > Len(buf)
    THEN [kind |-> "err", q |-> <<>>, offset |-> offset, top |-> -1]
    ELSE
      LET n == ParseDomainName(buf, offset) IN
      IF n.kind # "ok" THEN [kind |-> n.kind, q |-> <<>>, offset |-> n.offset, top |-> n.top]
      ELSE [kind |-> "ok",
            q |-> [ Name  |-> n.name,
                    Type  |-> Octet(buf, n.offset) * 256 + Octet(buf, n.offset + 1),
                    Class |-> Octet(buf, n.offset + 2) * 256 + Octet(buf, n.offset + 3) ],
            offset |-> n.offset + 4, top |-> Max(n.top, n.offset + 3)]

\* func ParseQuestionSection(buf []byte, offset int) (DNSQuestion, int, error)
ParseQuestionSection(buf, offset) ==
    IF offset + 4 > Len(buf)
    THEN [kind |-> "err", q |-> <<>>, offset |-> offset, top |-> -1]
    ELSE
      \* name, offset, err := utils.ParseDomainName(buf, offset) and the rest
      LET afterName(n) ==
            IF n.kind # "ok"
            THEN [kind |-> n.kind, q |-> <<>>, offset |-> n.offset, top |-> n.top]
            ELSE IF n.offset + 4 > Len(buf)
            THEN [kind |-> "err", q |-> <<>>, offset |-> n.offset, top |-> n.top]
            ELSE [kind |-> "ok",
                  q |-> [ Name  |-> n.name,
                          Type  |-> At(buf, n.offset) * 256 + At(buf, n.offset + 1),
                          Class |-> At(buf, n.offset + 2) * 256 + At(buf, n.offset + 3) ],
                  offset |-> n.offset + 4, top |-> Max(n.top, n.offset + 3)]
      IN  afterName(ParseDomainName(buf, offset))

\* func ParseHeaderSection(headerSection [12]byte) (DNSHeader, error)
ParseHeaderSection(h) ==
    [ ID      |-> At(h, 0) * 256 + At(h, 1),
      Flags   |-> ParseFlags(At(h, 2) * 256 + At(h, 3)),
      QDCount |-> At(h, 4) * 256 + At(h, 5),
      ANCount |-> At(h, 6) * 256 + At(h, 7),
      NSCount |-> At(h, 8) * 256 + At(h, 9),
      ARCount |-> At(h, 10) * 256 + At(h, 11) ]

ZeroHeader ==
    [ ID |-> 0, Flags |-> ZeroFlags, QDCount |-> 0, ANCount |-> 0, NSCount |-> 0,
      ARCount |-> 0 ]

\* the zero value odintypes.DNSRequest{}
ZeroRequest ==
    [ Header |-> ZeroHeader, Questions |-> <<>>, Answers |-> <<>>,
      Authority |-> <<>>, Additional |-> <<>> ]

\* the loop `for i := range int(header.QDCount)` of ParseRequest, from question i
RECURSIVE ParseQuestions(_, _, _, _, _, _)
ParseQuestions(buf, offset, i, qdcount, qsection, top) ==
    IF i >= qdcount THEN [kind |-> "ok", questions |-> qsection, top |-> top]
    ELSE IF offset >= Len(buf) THEN [kind |-> "err", questions |-> <<>>, top |-> top]
    ELSE
      \* q, offset, err = ParseQuestionSection(buf, offset) and the rest
      LET afterQuestion(r) ==
            IF r.kind # "ok"
            THEN [kind |-> r.kind, questions |-> <<>>, top |-> Max(top, r.top)]
            ELSE ParseQuestions(buf, r.offset, i + 1, qdcount, Append(qsection, r.q),
                                Max(top, r.top))
      IN  afterQuestion(ParseQuestionSection(buf, offset))

\* what ParseRequest returns before it has run
NotParsed == [kind |-> "none", request |-> ZeroRequest, top |-> -1]

\* func ParseRequest(buf []byte) (odintypes.DNSRequest, error)
\* kind: "ok", "err" (an error is returned) or "overflow" (it never returns)
ParseRequest(buf) ==
    IF Len(buf) < 12 THEN [kind |-> "err", request |-> ZeroRequest, top |-> -1]
    ELSE
      LET header == ParseHeaderSection(Slice(buf, 0, 12))
          afterQuestions(qs) ==
            IF qs.kind # "ok"
            THEN [kind |-> qs.kind, request |-> ZeroRequest, top |-> qs.top]
            ELSE [kind |-> "ok",
                  request |-> [ZeroRequest EXCEPT !.Header = header,
                                                  !.Questions = qs.questions],
                  top |-> qs.top]
      IN  afterQuestions(ParseQuestions(buf, 12, 0, header.QDCount, <<>>, 11))

(* --------------------------- packer (parser) --------------------------- *)

TYPE_A == 1

TYPE_NS == 2

TYPE_CNAME == 5

TYPE_PTR == 12

TYPE_MX == 15

TYPE_TXT == 16

TYPE_AAAA == 28

CLASS_IN == 1

\* strings.Split(s, "."): the parts between the dots of s, in order
Split(s) ==
    LET dots == SelectSeq([i \in 1..Len(s) |-> i], LAMBDA i : s[i] = Dot)
        cut(k) == IF k = 0 THEN 0 ELSE IF k > Len(dots) THEN Len(s) + 1 ELSE dots[k]
    IN  [k \in 1..(Len(dots) + 1) |-> SubSeq(s, cut(k - 1) + 1, cut(k) - 1)]

\* nameOffsets[domain] = offset
PutOffset(nameOffsets, domain, offset) ==
    [d \in (DOMAIN nameOffsets) \cup {domain} |->
        IF d = domain THEN offset ELSE nameOffsets[d]]

\* the loop `for _, part := range parts` of packDomainName and the final 0x00
RECURSIVE PackLabels(_, _, _)
PackLabels(parts, i, packedName) ==
    IF i > Len(parts) THEN [err |-> FALSE, bytes |-> packedName \o <<0>>]
    ELSE IF parts[i] = <<>> THEN PackLabels(parts, i + 1, packedName)
    ELSE IF Len(parts[i]) > 63 THEN [err |-> TRUE, bytes |-> <<>>]
    ELSE PackLabels(parts, i + 1, packedName \o <<Len(parts[i])>> \o parts[i])

\* func packDomainName(domain string, nameOffsets map[string]uint16,
\*                     currentBufferLen int) ([]byte, error)
\* offsets is the map after the call (the map is shared with the caller).
packDomainName(domain, nameOffsets, currentBufferLen) ==
    IF domain \in DOMAIN nameOffsets
    THEN [err |-> FALSE,
          bytes |-> U16(49152 + (nameOffsets[domain] % 16384)),   \* 0xC000 | offset
          offsets |-> nameOffsets]
    ELSE
      LET offsets == IF domain # <<>> /\ domain # <<Dot>>
                     THEN PutOffset(nameOffsets, domain, currentBufferLen % 65536)
                     ELSE nameOffsets
          r == PackLabels(Split(domain), 1, <<>>)
      IN  [err |-> r.err, bytes |-> r.bytes, offsets |-> offsets]

\* func packRData(recordType uint16, rData []byte, buf *bytes.Buffer,
\*                nameOffsets map[string]uint16) error
\* bufLen is buf.Len() on entry; bytes is what the call appends to buf.
packRData(recordType, rData, bufLen, nameOffsets) ==
    CASE recordType = TYPE_A ->
           IF Len(rData) # 4 THEN [err |-> TRUE, bytes |-> <<>>, offsets |-> nameOffsets]
           ELSE [err |-> FALSE, bytes |-> rData, offsets |-> nameOffsets]
      [] recordType = TYPE_AAAA ->
           IF Len(rData) # 16 THEN [err |-> TRUE, bytes |-> <<>>, offsets |-> nameOffsets]
           ELSE [err |-> FALSE, bytes |-> rData, offsets |-> nameOffsets]
      [] recordType \in {TYPE_CNAME, TYPE_NS, TYPE_PTR} ->
           packDomainName(rData, nameOffsets, bufLen)
      [] recordType = TYPE_MX ->
           IF Len(rData) < 2 THEN [err |-> TRUE, bytes |-> <<>>, offsets |-> nameOffsets]
           ELSE IF Len(rData) = 2
           THEN [err |-> TRUE, bytes |-> SubSeq(rData, 1, 2), offsets |-> nameOffsets]
           ELSE LET d == packDomainName(SubSeq(rData, 3, Len(rData)), nameOffsets,
                                        bufLen + 2)
                IN  [err |-> d.err, bytes |-> SubSeq(rData, 1, 2) \o d.bytes,
                     offsets |-> d.offsets]
      [] recordType = TYPE_TXT ->
           IF Len(rData) > 255 THEN [err |-> TRUE, bytes |-> <<>>, offsets |-> nameOffsets]
           ELSE [err |-> FALSE, bytes |-> <<Len(rData)>> \o rData, offsets |-> nameOffsets]
      [] OTHER -> [err |-> FALSE, bytes |-> rData, offsets |-> nameOffsets]

\* the loop `for _, q := range response.Questions` of PackResponse, from question i
RECURSIVE PackQuestions(_, _, _, _)
PackQuestions(questions, i, buf, nameOffsets) ==
    IF i > Len(questions) THEN [err |-> FALSE, bytes |-> buf, offsets |-> nameOffsets]
    ELSE
      LET q == questions[i]
          \* packedName, err := packDomainName(q.Name, nameOffsets, buf.Len())
          afterName(n) ==
            IF n.err THEN [err |-> TRUE, bytes |-> <<>>, offsets |-> n.offsets]
            ELSE PackQuestions(questions, i + 1,
                     buf \o n.bytes \o U16(q.Type) \o U16(q.Class), n.offsets)
      IN  afterName(packDomainName(q.Name, nameOffsets, Len(buf)))

\* the loop `for _, a := range response.Answers` of PackResponse, from answer i
RECURSIVE PackAnswers(_, _, _, _)
PackAnswers(answers, i, buf, nameOffsets) ==
    IF i > Len(answers) THEN [err |-> FALSE, bytes |-> buf, offsets |-> nameOffsets]
    ELSE
      LET a == answers[i]
          \* err = packRData(a.Type, a.RData, &buf, nameOffsets) and the rest;
          \* fixed is buf with the name and the fixed fields of the record
          afterRData(fixed, rd) ==
            IF rd.err THEN [err |-> TRUE, bytes |-> <<>>, offsets |-> rd.offsets]
            ELSE PackAnswers(answers, i + 1,
                     fixed \o U16(Len(rd.bytes) % 65536) \o rd.bytes, rd.offsets)
          \* the RDLENGTH placeholder takes two octets before the RData
          afterFixed(fixed, offsets) ==
            afterRData(fixed, packRData(a.Type, a.RData, Len(fixed) + 2, offsets))
          \* packedName, err := packDomainName(a.Name, nameOffsets, buf.Len())
          afterName(n) ==
            IF n.err THEN [err |-> TRUE, bytes |-> <<>>, offsets |-> n.offsets]
            ELSE afterFixed(buf \o n.bytes \o U16(a.Type) \o U16(a.Class) \o U32(a.TTL),
                            n.offsets)
      IN  afterName(packDomainName(a.Name, nameOffsets, Len(buf)))

\* the header octets as they would be with ANCount written before QDCount
PackHeader_CountsSwapped(header) ==
    U16(header.ID) \o U16(ToUint16(header.Flags)) \o U16(header.ANCount)
    \o U16(header.QDCount) \o U16(header.NSCount) \o U16(header.ARCount)

\* the twelve header octets PackResponse writes first
PackHeader(header) ==
    U16(header.ID) \o U16(ToUint16(header.Flags)) \o U16(header.QDCount)
    \o U16(header.ANCount) \o U16(header.NSCount) \o U16(header.ARCount)

\* what PackResponse returns before it has run
NotPacked == [done |-> FALSE, err |-> FALSE, bytes |-> <<>>]

\* func PackResponse(response *odintypes.DNSRequest) ([]byte, error)
\* (the Authority and Additional sections are not written)
PackResponse(resp) ==
    LET afterAnswers(as) ==
          IF as.err THEN [err |-> TRUE, bytes |-> <<>>]
          ELSE [err |-> FALSE, bytes |-> as.bytes]
        afterQuestions(qs) ==
          IF qs.err THEN [err |-> TRUE, bytes |-> <<>>]
          ELSE afterAnswers(PackAnswers(resp.Answers, 1, qs.bytes, qs.offsets))
    IN  afterQuestions(PackQuestions(resp.Questions, 1, PackHeader(resp.Header), <<>>))

(* ------------------- record store and cache (datastore) ---------------- *)

Nil == [nil |-> TRUE]

\* func TypeToString(t uint16) string
TypeToString(t) ==
    CASE t = 1 -> "A"    [] t = 2 -> "NS"    [] t = 5 -> "CNAME" [] t = 6 -> "SOA"
      [] t = 15 -> "MX"  [] t = 16 -> "TXT"  [] t = 28 -> "AAAA" [] t = 33 -> "SRV"
      [] t = 12 -> "PTR" [] t = 255 -> "ANY" [] OTHER -> "TYPE" \o ToString(t)

\* func ClassToString(c uint16) string
ClassToString(c) == IF c = CLASS_IN THEN "IN" ELSE "CLASS" \o ToString(c)

\* func ParseType(typeCode uint16) (string, error) and ParseTypeOrNA
ParseTypeOrNA(typeCode) ==
    CASE typeCode = 1 -> "A"    [] typeCode = 2 -> "NS"   [] typeCode = 5 -> "CNAME"
      [] typeCode = 6 -> "SOA"  [] typeCode = 12 -> "PTR" [] typeCode = 15 -> "MX"
      [] typeCode = 16 -> "TXT" [] typeCode = 28 -> "AAAA" [] OTHER -> "N/A"

\* the text "192.0.2.10"
AddrText == << 49, 57, 50, 46, 48, 46, 50, 46, 49, 48 >>

\* a text that is no address: "x"
BadText == << 120 >>

\* the number a text of decimal digits denotes
RECURSIVE DecimalValue(_)
DecimalValue(t) ==
    IF t = <<>> THEN 0
    ELSE 10 * DecimalValue(SubSeq(t, 1, Len(t) - 1)) + (t[Len(t)] - 48)

\* one field of a dotted-decimal address: one to three digits, no leading
\* zero, at most 255
IsDecimalOctet(t) ==
    /\ Len(t) \in 1..3
    /\ \A i \in 1..Len(t) : t[i] \in 48..57
    /\ Len(t) > 1 => t[1] # 48
    /\ DecimalValue(t) <= 255

\* net.ParseIP(s).To4() on dotted-decimal texts: the four octets, or <<>>
\* (nil) when s is no such text.  IPv6 texts are not among the model's inputs.
ParseIPv4(s) ==
    LET octets(parts) ==
          IF Len(parts) = 4 /\ \A i \in 1..4 : IsDecimalOctet(parts[i])
          THEN [i \in 1..4 |-> DecimalValue(parts[i])]
          ELSE <<>>
    IN  octets(Split(s))

\* func ParseA_RData(s string) ([]byte, error)
ParseA_RData(s) ==
    LET result(ipv4) ==
          IF ipv4 = <<>> THEN [err |-> TRUE, bytes |-> <<>>]
          ELSE [err |-> FALSE, bytes |-> ipv4]
    IN  result(ParseIPv4(s))

\* func ConvertRDataStringToBytes(recordType uint16, rDataString string) ([]byte, error)
\* (the rows of this model are A rows; other supported types are not stored)
ConvertRDataStringToBytes(recordType, rDataString) ==
    IF recordType = TYPE_A THEN ParseA_RData(rDataString)
    ELSE [err |-> TRUE, bytes |-> <<>>]

\* the decimal text of an octet
Decimal(n) ==
    IF n < 10 THEN << 48 + n >>
    ELSE IF n < 100 THEN << 48 + (n \div 10), 48 + (n % 10) >>
    ELSE << 48 + (n \div 100), 48 + ((n \div 10) % 10), 48 + (n % 10) >>

\* odintypes.FormatA_RData: the dotted-decimal text of four octets, the empty
\* text for any other length
FormatA_RData(rDataBytes) ==
    IF Len(rDataBytes) # 4 THEN <<>>
    ELSE Decimal(rDataBytes[1]) \o <<Dot>> \o Decimal(rDataBytes[2]) \o <<Dot>>
         \o Decimal(rDataBytes[3]) \o <<Dot>> \o Decimal(rDataBytes[4])

\* func ConvertRDataBytesToString(recordType uint16, rDataBytes []byte) string
ConvertRDataBytesToString(recordType, rDataBytes) ==
    IF recordType = TYPE_A THEN FormatA_RData(rDataBytes)
    ELSE "Unsupported_RData_Format_" \o ToString(recordType)

\* func (d *MySQLDriver) LookupRecordForDNSQuery(rname, rtype, rclass)
\* rows is the zone_entries table; dbErr: the query fails with an SQL error.
MySQLLookup(rows, rname, rtype, rclass, dbErr) ==
    LET match == {r \in rows : /\ r.Name = rname
                               /\ r.Type = TypeToString(rtype)
                               /\ r.Class = ClassToString(rclass)}
    IN  IF dbErr THEN [err |-> TRUE, rec |-> Nil]
        ELSE IF match = {} THEN [err |-> FALSE, rec |-> Nil]      \* sql.ErrNoRows
        ELSE
          LET dbRecord == CHOOSE r \in match : TRUE
              conv == ConvertRDataStringToBytes(rtype, dbRecord.RData)
          IN  IF conv.err THEN [err |-> TRUE, rec |-> Nil]
              ELSE [err |-> FALSE,
                    rec |-> [ Name |-> dbRecord.Name, Type |-> rtype, Class |-> rclass,
                              TTL |-> dbRecord.TTL, RData |-> conv.bytes ]]

\* func combineSearchPartsToKey(rname string, rtype uint16, rclass uint16) string
\* "%s|%d|%d": the two decimal fields hold no '|', so the key determines the triple.
combineSearchPartsToKey(rname, rtype, rclass) == <<rname, rtype, rclass>>

\* numbers wider than 31 bits are sequences of octets, least significant first
LittleEndian(octets) == [i \in 1..Len(octets) |-> octets[Len(octets) + 1 - i]]

\* time.Second: 1000000000 nanoseconds (0x3B9ACA00)
Second == << 0, 202, 154, 59 >>

\* the term of a's octet i in the column of weight 256^k of the product a * b
Term(a, b, i, k) ==
    IF i \in DOMAIN a /\ (k - i + 2) \in DOMAIN b THEN a[i] * b[k - i + 2] ELSE 0

\* the column of weight 256^k of a * b, for a of at most four octets
Column(a, b, k) == Term(a, b, 1, k) + Term(a, b, 2, k) + Term(a, b, 3, k) + Term(a, b, 4, k)

RECURSIVE Carry(_, _, _)
\* what the columns below weight 256^k carry into it
Carry(a, b, k) ==
    IF k = 0 THEN 0 ELSE (Column(a, b, k - 1) + Carry(a, b, k - 1)) \div 256

\* the product of two unsigned numbers, exact, in Len(a) + Len(b) octets
Product(a, b) ==
    [k \in 1..(Len(a) + Len(b)) |-> (Column(a, b, k - 1) + Carry(a, b, k - 1)) % 256]

\* time.Duration as it would be if it were an int32: the low 32 bits,
\* sign-extended
Int64_Narrow(d) ==
    [k \in 1..8 |-> IF k <= 4 THEN (IF k <= Len(d) THEN d[k] ELSE 0)
                    ELSE IF Len(d) >= 4 /\ d[4] >= 128 THEN 255 ELSE 0]

\* time.Duration is an int64: the low 64 bits of the number, in two's complement
Int64(d) == [k \in 1..8 |-> IF k <= Len(d) THEN d[k] ELSE 0]

\* d <= 0 for an int64 d
NonPositive(d) == d[8] >= 128 \/ \A k \in 1..8 : d[k] = 0

\* 5 * time.Minute, in nanoseconds
FiveMinutes == Int64(Product(<< 44, 1, 0, 0 >>, Second))

\* cacheTTL := time.Duration(TTL) * time.Second; if cacheTTL <= 0 { cacheTTL =
\* 5 * time.Minute }, for the little-endian octets of the uint32 TTL
cacheTTL(ttlOctets) ==
    LET floor(d) == IF NonPositive(d) THEN FiveMinutes ELSE d
    IN  floor(Int64(Product(ttlOctets, Second)))

\* the expiration given to Set for a record whose TTL is the number ttl
CacheTTL(ttl) == cacheTTL(LittleEndian(U32(ttl)))

\* the result value `cacheHit` of the cache driver's lookup
CacheHit(servedFromCache) == IF servedFromCache THEN 1 ELSE 0

\* the record put in the cache as it would be with its TTL field left unset
CacheableRecord_WithoutTTL(rec) ==
    [ Name |-> rec.Name, Type |-> TypeToString(rec.Type),
      Class |-> ClassToString(rec.Class), TTL |-> 0,
      RData |-> ConvertRDataBytesToString(rec.Type, rec.RData) ]

\* cacheableRecord := types.CacheRecord{...} of the record the store returned
CacheableRecord(rec) ==
    [ Name |-> rec.Name, Type |-> TypeToString(rec.Type),
      Class |-> ClassToString(rec.Class), TTL |-> rec.TTL,
      RData |-> ConvertRDataBytesToString(rec.Type, rec.RData) ]

\* the cache after the store returned no record, as it would be if the miss
\* were remembered under the key for five minutes
AfterNotFound_Remembered(c, cacheKey) ==
    [k \in (DOMAIN c) \cup {cacheKey} |->
        IF k = cacheKey THEN [json |-> FALSE, rec |-> Nil, expiration |-> FiveMinutes]
        ELSE c[k]]

\* if dbRecordFromPersistent == nil { return nil, nil }: the cache after it
AfterNotFound(c, cacheKey) == c

\* func (d *RedisCacheDriver) LookupRecordForDNSQuery(rname, rtype, rclass)
\* c is the Redis content; getErr: Get fails with an error other than redis.Nil;
\* setErr: Set fails.  cache is the Redis content after the call.
\* storeCalled, setCalled: the call reached the MySQL driver, Redis Set.
RedisLookup(c, rows, rname, rtype, rclass, getErr, dbErr, setErr) ==
    LET cacheKey == combineSearchPartsToKey(rname, rtype, rclass)
        fromStore == MySQLLookup(rows, rname, rtype, rclass, dbErr)
        without == [k \in (DOMAIN c) \ {cacheKey} |-> c[k]]       \* Del(cacheKey)
    IN  IF getErr
        THEN [err |-> TRUE, rec |-> Nil, cacheHit |-> CacheHit(FALSE), cache |-> c,
              storeCalled |-> FALSE, setCalled |-> FALSE]
        ELSE IF cacheKey \notin DOMAIN c                            \* redis.Nil
        THEN IF fromStore.err \/ fromStore.rec = Nil
             THEN [err |-> fromStore.err, rec |-> Nil, cacheHit |-> CacheHit(FALSE),
                   cache |-> IF fromStore.err THEN c ELSE AfterNotFound(c, cacheKey),
                   storeCalled |-> TRUE, setCalled |-> FALSE]
             ELSE
               LET rec == fromStore.rec
                   cacheableRecord == CacheableRecord(rec)
                   entry == [json |-> TRUE, rec |-> cacheableRecord,
                             expiration |-> CacheTTL(rec.TTL)]
               IN  [err |-> FALSE, rec |-> rec, cacheHit |-> CacheHit(FALSE),
                    cache |-> IF setErr THEN c
                              ELSE [k \in (DOMAIN c) \cup {cacheKey} |->
                                       IF k = cacheKey THEN entry ELSE c[k]],
                    storeCalled |-> TRUE, setCalled |-> TRUE]
        ELSE IF ~c[cacheKey].json                                   \* Unmarshal fails
        THEN [err |-> fromStore.err, rec |-> fromStore.rec, cacheHit |-> CacheHit(FALSE),
              cache |-> without, storeCalled |-> TRUE, setCalled |-> FALSE]
        ELSE
          LET cachedDBRecord == c[cacheKey].rec
              conv == ConvertRDataStringToBytes(rtype, cachedDBRecord.RData)
          IN  IF conv.err
              THEN [err |-> fromStore.err, rec |-> fromStore.rec,
                    cacheHit |-> CacheHit(FALSE), cache |-> without,
                    storeCalled |-> TRUE, setCalled |-> FALSE]
              ELSE [err |-> FALSE,
                    rec |-> [ Name |-> cachedDBRecord.Name, Type |-> rtype,
                              Class |-> rclass, TTL |-> cachedDBRecord.TTL,
                              RData |-> conv.bytes ],
                    cacheHit |-> CacheHit(TRUE), cache |-> c,
                    storeCalled |-> FALSE, setCalled |-> FALSE]

(* -------------------------- inbound datagrams ------------------------- *)

\* a 12-octet header with the given ID octets, flag octets and QDCount
Hdr(idHi, idLo, flagsHi, flagsLo, qd) ==
    << idHi, idLo, flagsHi, flagsLo, 0, qd, 0, 0, 0, 0, 0, 0 >>

NameA == << 97 >>       \* "a": the store holds an A record for it

NameB == << 98 >>       \* "b": the store holds nothing for it

QuestionA == << 1, 97, 0 >> \o U16(TYPE_A) \o U16(CLASS_IN)

QuestionB == << 1, 98, 0 >> \o U16(TYPE_A) \o U16(CLASS_IN)

\* a query for a/A/IN with RD set
QueryA == Hdr(18, 52, 1, 0, 1) \o QuestionA

\* a query for b/A/IN
QueryB == Hdr(18, 53, 1, 0, 1) \o QuestionB

\* seven octets: an ID, flags and QDCount = 1, cut in the ANCount field
Short7 == << 171, 205, 1, 0, 0, 1, 0 >>

\* a header alone, QDCount = 0
NoQuestion == Hdr(18, 54, 0, 0, 0)

\* a well-formed message with the QR bit set
QRResponse == Hdr(18, 55, 128, 0, 1) \o QuestionA

\* QR set and a question whose name is a pointer beyond any buffer
QRMalformed == Hdr(18, 56, 128, 0, 1) \o << 255, 255 >>

\* a query whose name is a pointer beyond any buffer
Malformed == Hdr(18, 57, 1, 0, 1) \o << 255, 255 >>

\* a question name that is a pointer to its own offset
PointerSelf == Hdr(18, 58, 1, 0, 1) \o << 192, 12 >>

\* two pointers that target each other
PointerMutual == Hdr(18, 59, 1, 0, 1) \o << 192, 14, 192, 12 >>

\* a query for a/A/IN with Opcode 2
OpcodeQuery == Hdr(18, 60, 16, 0, 1) \o QuestionA

\* two questions: b/A/IN, then a name that is a pointer to the first name
TwoQuestions == Hdr(18, 61, 1, 0, 2) \o QuestionB \o << 192, 12 >> \o U16(TYPE_A) \o U16(CLASS_IN)

\* a label of 64 octets, one more than RFC 1035 allows
LongLabel == [i \in 1..64 |-> 120]

\* a query for the one-label name LongLabel, type A, class IN; the length
\* octet 64 has its two top bits 01, so it is no compression pointer
LongLabelQuery ==
    Hdr(18, 64, 1, 0, 1) \o << 64 >> \o LongLabel \o << 0 >> \o U16(TYPE_A) \o U16(CLASS_IN)

\* two questions: b/A/IN (not in the store), then a/A/IN (in the store)
TwoQuestionsBA == Hdr(18, 62, 1, 0, 2) \o QuestionB \o QuestionA

\* two questions: a/A/IN (in the store), then b/A/IN (not in the store)
TwoQuestionsAB == Hdr(18, 63, 1, 0, 2) \o QuestionA \o QuestionB

Datagrams ==
    { QueryA, QueryB, Short7, NoQuestion, QRResponse, QRMalformed, Malformed,
      PointerSelf, PointerMutual, OpcodeQuery, TwoQuestions, TwoQuestionsBA,
      TwoQuestionsAB, LongLabelQuery }

\* make([]byte, config.BUFFER_SIZE)
ZeroBuffer == [i \in 1..BufferSize |-> 0]

\* conn.ReadFromUDP(buf): the datagram's octets overwrite the start of buf,
\* octets beyond len(buf) are discarded, the rest of buf keeps its content
ReadFromUDP(buf, dg) ==
    [i \in 1..Len(buf) |-> IF i <= Len(dg) THEN dg[i] ELSE buf[i]]

(* ------------------------ StartServer (server) ------------------------ *)

\* the response literal as it would be without `QR: true`
NewResponse_WithoutQR == ZeroRequest

\* response := &odintypes.DNSRequest{Header: {ID: 0, Flags: {QR: true, RA: false, Z: 0}}}
NewResponse ==
    [ZeroRequest EXCEPT !.Header.Flags.QR = TRUE]

\* currentMetric := metrics.DNSMetric{Success: 1, Domain: "N/A", QueryType: "N/A", ...}
NewMetric ==
    [ Success |-> 1, Domain |-> "N/A", QueryType |-> "N/A", CacheHit |-> 0,
      Rcode |-> 0, ErrorMessage |-> "" ]

\* the zone_entries rows of the model; CreateRecordHandler stores any
\* non-empty name, so a row may carry a label of more than 63 octets
Rows ==
    { [ Name |-> NameA, Type |-> "A", Class |-> "IN", TTL |-> 300,
        RData |-> AddrText ],
      [ Name |-> LongLabel, Type |-> "A", Class |-> "IN", TTL |-> 300,
        RData |-> AddrText ] }

\* no lookup was made in the iteration
NoLookup ==
    [err |-> FALSE, rec |-> Nil, cacheHit |-> 0, made |-> FALSE,
     getErr |-> FALSE, dbErr |-> FALSE, setErr |-> FALSE]

\* type DBZone struct with its zero value: UpdatedAt is a reading of the
\* clock, Deleted is DeletedAt.Valid and DeletedAt its time
NewDBZone ==
    [ID |-> "", Owner |-> "", Name |-> "", UpdatedAt |-> 0, Deleted |-> FALSE,
     DeletedAt |-> 0]

\* the zones table: one zone, not deleted
Zones ==
    { [NewDBZone EXCEPT !.ID = "z1", !.Owner = "u1", !.Name = "example.com"] }

\* no call was made on the cache driver
NoOp ==
    [ kind |-> "none", key |-> <<>>, err |-> FALSE, rec |-> Nil, cacheHit |-> 0,
      storeCalled |-> FALSE, getFailed |-> FALSE, dbFailed |-> FALSE,
      setFailed |-> FALSE, cacheBefore |-> <<>>, record |-> Nil ]

\* the cache driver on its own has made no call
LayerAtRest ==
    /\ zones = Zones
    /\ op = NoOp
    /\ missed = <<>>
    /\ nops = 0

\* no flags word computed
NoRound == [done |-> FALSE, word |-> 0, flags |-> ZeroFlags]

FlagsAtRest == flagBundle = ZeroFlags /\ flagRound = NoRound

\* requests the API receives in one run
MaxRequests == 3

\* a request that has not arrived
NoHandler == [at |-> "idle", ip |-> "", now |-> 0, local |-> <<>>, status |-> 0]

\* func NewRateLimiter(limit int, window time.Duration) *RateLimiter:
\* requests: make(map[string][]time.Time)
NewRateLimiter == <<>>

\* no request has arrived at the API
LimiterAtRest ==
    /\ requests = NewRateLimiter
    /\ clock = 0
    /\ handlers = [i \in 1..MaxRequests |-> NoHandler]
    /\ apiServer = "serving"

\* no expiration computed
NoExpiry == [by |-> "none", duration |-> <<>>]

ExpiryAtRest == recordTTL = << 0, 0, 0, 0 >> /\ cacheExpiry = NoExpiry

\* a connection to ClickHouse: open, and with no batch sent
NewSink(blocked) ==
    [closed |-> FALSE, blocked |-> blocked, batches |-> <<>>, sends |-> <<>>]

\* the ingestion driver as NewClickHouseIngestionDriver returns it
PipelineAtRest ==
    /\ batch = <<>> /\ consumer = "select"
    /\ remainingBatch = <<>> /\ closer = "idle"
    /\ sink = NewSink(FALSE)
    /\ submits = 0 /\ drops = 0 /\ atClose = <<>>

Init ==
    /\ pc = "Receive"
    /\ crash = "none"
    /\ ingestionDriver \in {"ok", "nil"}
    /\ buffer = ZeroBuffer
    /\ datagram = <<>>
    /\ nread = 0
    /\ readOk = TRUE
    /\ parsed = NotParsed
    /\ looked = NoLookup
    /\ response = NewResponse
    /\ currentMetric = NewMetric
    /\ sendOutcome = "none"
    /\ lastSent = <<>>
    /\ collects = 0
    /\ submitted = Nil
    /\ droppedQR = FALSE
    /\ path = "none"
    /\ metricBuffer = <<>>
    /\ cache = <<>>
    /\ store = Rows
    /\ message = ZeroRequest
    /\ packed = NotPacked
    /\ reparsed = NotParsed
    /\ wire = <<>>
    /\ unpacked = NotParsed
    /\ LayerAtRest
    /\ PipelineAtRest
    /\ ExpiryAtRest
    /\ FlagsAtRest
    /\ LimiterAtRest

\* conn.ReadFromUDP returns a datagram; the iteration's locals are set up
Receive(dg) ==
    /\ pc = "Receive"
    /\ nread < MaxDatagrams
    /\ buffer' = ReadFromUDP(buffer, dg)
    /\ datagram' = dg
    /\ nread' = nread + 1
    /\ readOk' = TRUE
    /\ parsed' = NotParsed
    /\ looked' = NoLookup
    /\ response' = NewResponse
    /\ currentMetric' = NewMetric
    /\ sendOutcome' = "none"
    /\ lastSent' = <<>>
    /\ collects' = 0
    /\ submitted' = Nil
    /\ droppedQR' = FALSE
    /\ path' = "none"
    /\ pc' = "Parse"
    /\ UNCHANGED <<crash, ingestionDriver, metricBuffer, cache, store>>
    /\ UNCHANGED restVars

\* conn.ReadFromUDP returns an error: log, continue
ReceiveError ==
    /\ pc = "Receive"
    /\ readOk
    /\ readOk' = FALSE
    /\ UNCHANGED <<pc, crash, ingestionDriver, buffer, datagram, nread, parsed,
                   looked, response, currentMetric, sendOutcome, lastSent, collects,
                   submitted, droppedQR, path, metricBuffer, cache, store>>
    /\ UNCHANGED restVars

\* req, parseErr := parser.ParseRequest(buffer), the FORMERR branch, and the
\* copy of ID, QDCount and Questions into the response
Parse ==
    /\ pc = "Parse"
    /\ LET r == ParseRequest(buffer) IN
       /\ parsed' = r
       /\ CASE r.kind = "overflow" ->
                 /\ pc' = "Crashed"
                 /\ crash' = "stack overflow"
                 /\ UNCHANGED <<response, currentMetric, path>>
            [] r.kind = "err" ->
                 /\ response' = [response EXCEPT !.Header.Flags.RCode = 1]
                 /\ currentMetric' = [currentMetric EXCEPT !.Success = 0,
                                         !.ErrorMessage = "FORMERR", !.Rcode = 1]
                 /\ path' = "parse error"
                 /\ pc' = "Send"
                 /\ UNCHANGED crash
            [] OTHER ->
                 /\ response' = [response EXCEPT
                                    !.Header.ID = r.request.Header.ID,
                                    !.Header.QDCount = r.request.Header.QDCount,
                                    !.Questions = r.request.Questions]
                 /\ pc' = "Validate"
                 /\ UNCHANGED <<crash, currentMetric, path>>
    /\ UNCHANGED <<ingestionDriver, buffer, datagram, nread, readOk, looked,
                   sendOutcome, lastSent, collects, submitted, droppedQR,
                   metricBuffer, cache, store>>
    /\ UNCHANGED restVars

\* the QR check and the check for questions
Validate ==
    /\ pc = "Validate"
    /\ LET req == parsed.request IN
       IF req.Header.Flags.QR
       THEN /\ droppedQR' = TRUE
            /\ pc' = "Receive"
            /\ UNCHANGED <<response, currentMetric, path>>
       ELSE IF Len(req.Questions) > 0
       THEN /\ currentMetric' = [currentMetric EXCEPT
                                    !.Domain = req.Questions[1].Name,
                                    !.QueryType = ParseTypeOrNA(req.Questions[1].Type)]
            /\ pc' = "Lookup"
            /\ UNCHANGED <<response, droppedQR, path>>
       ELSE /\ response' = [response EXCEPT !.Header.Flags.RCode = 1,
                                            !.Header.Flags.QR = TRUE]
            /\ currentMetric' = [currentMetric EXCEPT !.Success = 0,
                                    !.ErrorMessage = "FORMERR", !.Rcode = 1]
            /\ path' = "no questions"
            /\ pc' = "Send"
            /\ UNCHANGED droppedQR
    /\ UNCHANGED <<crash, ingestionDriver, buffer, datagram, nread, readOk, parsed,
                   looked, sendOutcome, lastSent, collects, submitted, metricBuffer,
                   cache, store>>
    /\ UNCHANGED restVars

\* the response and the metric after cacheDriver.LookupRecordForDNSQuery returned r
AfterLookup(resp, metric, r) ==
    LET m == [metric EXCEPT !.CacheHit = r.cacheHit] IN
    IF r.err
    THEN [ path |-> "lookup error",
           response |-> [resp EXCEPT !.Header.Flags.RCode = 2,
                            !.Answers = <<>>, !.Authority = <<>>, !.Additional = <<>>,
                            !.Header.ANCount = 0, !.Header.NSCount = 0,
                            !.Header.ARCount = 0],
           metric |-> [m EXCEPT !.Success = 0, !.ErrorMessage = "SERVFAIL", !.Rcode = 2] ]
    ELSE IF r.rec = Nil
    THEN [ path |-> "not found",
           response |-> [resp EXCEPT !.Header.Flags.RCode = 3,
                            !.Answers = <<>>, !.Authority = <<>>, !.Additional = <<>>,
                            !.Header.ANCount = 0, !.Header.NSCount = 0,
                            !.Header.ARCount = 0],
           metric |-> [m EXCEPT !.Success = 0, !.ErrorMessage = "NXDOMAIN", !.Rcode = 3] ]
    ELSE [ path |-> "answer",
           response |-> [resp EXCEPT !.Answers = Append(resp.Answers, r.rec),
                            !.Header.ANCount = (resp.Header.ANCount + 1) % 65536,
                            !.Header.Flags.AA = TRUE],
           metric |-> [m EXCEPT !.Success = 1, !.ErrorMessage = "",
                          !.Rcode = resp.Header.Flags.RCode] ]

\* the question the lookup is made for, as it would be with the last question
\* of the request in place of the first
question_Last(req) == req.Questions[Len(req.Questions)]

\* question := req.Questions[0]
question(req) == req.Questions[1]

\* the lookup of the question through the cache driver
Lookup(getErr, dbErr, setErr) ==
    /\ pc = "Lookup"
    /\ LET q == question(parsed.request)
           r == RedisLookup(cache, store, q.Name, q.Type, q.Class,
                            getErr, dbErr, setErr)
           a == AfterLookup(response, currentMetric, r)
       IN  /\ looked' = [err |-> r.err, rec |-> r.rec, cacheHit |-> r.cacheHit,
                         made |-> TRUE, getErr |-> getErr,
                         dbErr |-> r.storeCalled /\ dbErr,
                         setErr |-> r.setCalled /\ setErr]
           /\ cache' = r.cache
           /\ response' = a.response
           /\ currentMetric' = a.metric
           /\ path' = a.path
    /\ pc' = "Send"
    /\ UNCHANGED <<crash, ingestionDriver, buffer, datagram, nread, readOk, parsed,
                   sendOutcome, lastSent, collects, submitted, droppedQR,
                   metricBuffer, store>>
    /\ UNCHANGED restVars

\* the lookup reaches the persistent store (no usable cache entry, or the
\* Get on Redis failed) and d.db.Get never returns: the store is called
\* without a context and the loop calls the lookup inline, so the
\* iteration stays in the call
LookupNeverReturns(getErr) ==
    /\ pc = "Lookup"
    /\ LET q == question(parsed.request)
       IN  RedisLookup(cache, store, q.Name, q.Type, q.Class,
                       getErr, FALSE, FALSE).storeCalled
    /\ pc' = "InStoreCall"
    /\ UNCHANGED <<crash, ingestionDriver, buffer, datagram, nread, readOk, parsed,
                   looked, response, currentMetric, sendOutcome, lastSent, collects,
                   submitted, droppedQR, path, metricBuffer, cache, store>>
    /\ UNCHANGED restVars

\* func SendResponse(response, conn, clientAddr) error
\* writeErr: conn.WriteToUDP fails
SendResponse(resp, writeErr) ==
    \* binaryResponse, err := parser.PackResponse(response) and the rest
    LET afterPack(binaryResponse) ==
          IF binaryResponse.err THEN [outcome |-> "packerr", bytes |-> <<>>]
          ELSE IF writeErr THEN [outcome |-> "writeerr", bytes |-> <<>>]
          ELSE [outcome |-> "sent", bytes |-> binaryResponse.bytes]
    IN  afterPack(PackResponse(resp))

\* the metric after SendResponse as it would be if no branch looked at sendErr
AfterSend_IgnoresSendErr(metric, branch, outcome) == metric

\* the metric after SendResponse: only the answer branch looks at sendErr
AfterSend(metric, branch, outcome) ==
    IF branch = "answer" /\ outcome # "sent"
    THEN [metric EXCEPT !.Success = 0, !.ErrorMessage = "SendResponse failed",
                        !.Rcode = 2]
    ELSE metric

\* the call of SendResponse on each branch
Send(writeErr) ==
    /\ pc = "Send"
    /\ LET r == SendResponse(response, writeErr) IN
       /\ sendOutcome' = r.outcome
       /\ lastSent' = r.bytes
       /\ currentMetric' = AfterSend(currentMetric, path, r.outcome)
    /\ pc' = "Emit"
    /\ UNCHANGED <<crash, ingestionDriver, buffer, datagram, nread, readOk, parsed,
                   looked, response, collects, submitted, droppedQR, path,
                   metricBuffer, cache, store>>
    /\ UNCHANGED restVars

\* Collect as it would be with a plain send and a channel that always has room
Collect_AlwaysSends(ch, metric) == Append(ch, metric)

\* func (d *ClickHouseIngestionDriver) Collect(metric DNSMetric): a send on the
\* channel of capacity 2 * batchSize, or the default case
Collect(ch, metric) ==
    IF Len(ch) < 2 * BatchSize THEN Append(ch, metric) ELSE ch

\* the end of the iteration as it would be if the branch for a request with
\* no questions continued without its Collect call
Emit_NoCollectForNoQuestions ==
    /\ pc = "Emit"
    /\ IF path = "no questions"
       THEN /\ pc' = "Receive"
            /\ UNCHANGED <<crash, metricBuffer, collects, submitted>>
       ELSE IF ingestionDriver = "nil"
       THEN /\ pc' = "Crashed"
            /\ crash' = "nil dereference"
            /\ UNCHANGED <<metricBuffer, collects, submitted>>
       ELSE /\ metricBuffer' = Collect(metricBuffer, currentMetric)
            /\ collects' = collects + 1
            /\ submitted' = currentMetric
            /\ pc' = "Receive"
            /\ UNCHANGED crash
    /\ UNCHANGED <<ingestionDriver, buffer, datagram, nread, readOk, parsed, looked,
                   response, currentMetric, sendOutcome, lastSent, droppedQR, path,
                   cache, store>>
    /\ UNCHANGED restVars

\* ingestionDriver.Collect(currentMetric) and the end of the iteration;
\* a call on the nil interface value panics
Emit ==
    /\ pc = "Emit"
    /\ IF ingestionDriver = "nil"
       THEN /\ pc' = "Crashed"
            /\ crash' = "nil dereference"
            /\ UNCHANGED <<metricBuffer, collects, submitted>>
       ELSE /\ metricBuffer' = Collect(metricBuffer, currentMetric)
            /\ collects' = collects + 1
            /\ submitted' = currentMetric
            /\ pc' = "Receive"
            /\ UNCHANGED crash
    /\ UNCHANGED <<ingestionDriver, buffer, datagram, nread, readOk, parsed, looked,
                   response, currentMetric, sendOutcome, lastSent, droppedQR, path,
                   cache, store>>
    /\ UNCHANGED restVars

Next ==
    \/ \E dg \in Datagrams : Receive(dg)
    \/ ReceiveError
    \/ Parse
    \/ Validate
    \/ \E getErr \in BOOLEAN, dbErr \in BOOLEAN, setErr \in BOOLEAN :
          Lookup(getErr, dbErr, setErr)
    \/ \E getErr \in BOOLEAN : LookupNeverReturns(getErr)
    \/ \E writeErr \in BOOLEAN : Send(writeErr)
    \/ Emit

Spec == Init /\ [][Next]_vars

\* the same server reading only datagrams whose names hold no pointer cycle
AcyclicDatagrams == Datagrams \ {PointerSelf, PointerMutual}

NextAcyclic ==
    \/ \E dg \in AcyclicDatagrams : Receive(dg)
    \/ ReceiveError
    \/ Parse
    \/ Validate
    \/ \E getErr \in BOOLEAN, dbErr \in BOOLEAN, setErr \in BOOLEAN :
          Lookup(getErr, dbErr, setErr)
    \/ \E getErr \in BOOLEAN : LookupNeverReturns(getErr)
    \/ \E writeErr \in BOOLEAN : Send(writeErr)
    \/ Emit

SpecAcyclic == Init /\ [][NextAcyclic]_vars

(* ------------- the codec on its own (parser, util as functions) -------- *)

\* the most answer records of a message given to PackResponse
MaxAnswers == 3

\* n octets 'x'
Rep(n) == [i \in 1..n |-> 120]

\* a label of n octets on the wire
Label(n) == << n >> \o Rep(n)

Mail == << 109, 97, 105, 108 >>

Example == << 101, 120, 97, 109, 112, 108, 101 >>

Com == << 99, 111, 109 >>

\* "mail.example.com"
MailExampleCom == Mail \o << Dot >> \o Example \o << Dot >> \o Com

\* "mx1.example.com"
Mx1ExampleCom == << 109, 120, 49 >> \o << Dot >> \o Example \o << Dot >> \o Com

\* odintypes.DNSQuestion{Name, Type, Class: IN}
Q(name, type) == [Name |-> name, Type |-> type, Class |-> CLASS_IN]

\* odintypes.DNSRecord{Name, Type, Class: IN, TTL: 300, RData}
RR(name, type, rdata) ==
    [Name |-> name, Type |-> type, Class |-> CLASS_IN, TTL |-> 300, RData |-> rdata]

\* a response message whose counts are the lengths of its sections
Msg(flags, questions, answers) ==
    [ Header |-> [ ID |-> 4660, Flags |-> flags, QDCount |-> Len(questions),
                   ANCount |-> Len(answers), NSCount |-> 0, ARCount |-> 0 ],
      Questions |-> questions, Answers |-> answers, Authority |-> <<>>,
      Additional |-> <<>> ]

FlagSets ==
    { [ZeroFlags EXCEPT !.QR = TRUE],
      [ZeroFlags EXCEPT !.QR = TRUE, !.AA = TRUE, !.RD = TRUE],
      [ZeroFlags EXCEPT !.QR = TRUE, !.Opcode = 2, !.RCode = 3] }

\* n answers a/A/IN 192.0.2.10
ARecords(n) == [i \in 1..n |-> RR(NameA, TYPE_A, << 192, 0, 2, 10 >>)]

\* the MX answer of mail.example.com: preference 10, target mx1.example.com
MXMessage ==
    Msg([ZeroFlags EXCEPT !.QR = TRUE, !.AA = TRUE],
        << Q(MailExampleCom, TYPE_MX) >>,
        << RR(MailExampleCom, TYPE_MX, << 0, 10 >> \o Mx1ExampleCom) >>)

\* a CNAME answer whose target is new to the message
CNAMEMessage ==
    Msg([ZeroFlags EXCEPT !.QR = TRUE, !.AA = TRUE],
        << Q(NameA, TYPE_CNAME) >>,
        << RR(NameA, TYPE_CNAME, MailExampleCom) >>)

\* a TXT answer
TXTMessage ==
    Msg([ZeroFlags EXCEPT !.QR = TRUE, !.AA = TRUE],
        << Q(NameB, TYPE_TXT) >>,
        << RR(NameB, TYPE_TXT, << 104, 105 >>) >>)

\* n answers b/TXT/IN, each a text of 200 octets (213 octets on the wire)
TXTRecords(n) == [i \in 1..n |-> RR(NameB, TYPE_TXT, Rep(200))]

\* the messages given to PackResponse
Messages ==
    { Msg(f, << Q(NameA, TYPE_A) >>, ARecords(n)) : f \in FlagSets, n \in 0..MaxAnswers }
    \cup { Msg(f, << Q(NameB, TYPE_TXT) >>, TXTRecords(n)) :
              f \in FlagSets, n \in 1..MaxAnswers }
    \cup { Msg(f, << Q(name, TYPE_A) >>, <<>>) :
              f \in FlagSets, name \in {NameB, MailExampleCom, LongLabel} }
    \cup { Msg([ZeroFlags EXCEPT !.QR = TRUE],
               << Q(MailExampleCom, TYPE_A), Q(MailExampleCom, TYPE_AAAA) >>, <<>>) }
    \cup { MXMessage, CNAMEMessage, TXTMessage }

TypeClass == U16(TYPE_A) \o U16(CLASS_IN)

\* one question whose name is one label of 63 octets
MaxLabelQuery == Hdr(18, 65, 1, 0, 1) \o Label(63) \o << 0 >> \o TypeClass

\* one question whose name takes 255 octets on the wire
Name255Query ==
    Hdr(18, 66, 1, 0, 1) \o Label(63) \o Label(63) \o Label(63) \o Label(61)
    \o << 0 >> \o TypeClass

\* one question whose name takes 321 octets on the wire (five labels of 63)
Name321Query ==
    Hdr(18, 67, 1, 0, 1) \o Label(63) \o Label(63) \o Label(63) \o Label(63)
    \o Label(63) \o << 0 >> \o TypeClass

\* QDCount = 1 and nothing after the header
HeaderOnly == Hdr(18, 68, 1, 0, 1)

\* a label of 5 octets of which 3 are there
LabelCut == Hdr(18, 69, 1, 0, 1) \o << 1, 97, 5, 98, 98, 98 >>

\* labels that end with the buffer, no zero octet
NoTerminator == Hdr(18, 70, 1, 0, 1) \o << 1, 97, 1, 98 >>

\* the first octet of a pointer is the last octet of the buffer
PointerCut == Hdr(18, 71, 1, 0, 1) \o << 1, 97, 1, 98, 192 >>

\* a name and three of the four octets of type and class
TypeClassCut == Hdr(18, 72, 1, 0, 1) \o << 1, 97, 0, 0, 1, 0 >>

\* a pointer to offset 16383, beyond the buffer
PointerBeyond == Hdr(18, 73, 1, 0, 1) \o << 1, 97, 255, 255 >>

\* a pointer to the last octet, where a label of 5 octets would start
PointerToEnd == Hdr(18, 74, 1, 0, 1) \o << 192, 17, 0, 1, 0, 5 >>

\* the buffers given to ParseRequest
Wires ==
    { QueryA, TwoQuestions, TwoQuestionsBA, NoQuestion, Short7, MaxLabelQuery,
      LongLabelQuery, Name255Query, Name321Query, HeaderOnly, LabelCut,
      NoTerminator, PointerCut, TypeClassCut, PointerBeyond, PointerToEnd }

InitCodec ==
    /\ pc = "Receive" /\ crash = "none" /\ ingestionDriver = "ok"
    /\ buffer = ZeroBuffer /\ datagram = <<>> /\ nread = 0 /\ readOk = TRUE
    /\ parsed = NotParsed /\ looked = NoLookup /\ response = NewResponse
    /\ currentMetric = NewMetric /\ sendOutcome = "none" /\ lastSent = <<>>
    /\ collects = 0 /\ submitted = Nil /\ droppedQR = FALSE /\ path = "none"
    /\ metricBuffer = <<>> /\ cache = <<>> /\ store = Rows
    /\ \/ message \in Messages /\ wire = <<>>
       \/ message = ZeroRequest /\ wire \in Wires
    /\ packed = NotPacked
    /\ reparsed = NotParsed
    /\ unpacked = NotParsed
    /\ LayerAtRest
    /\ PipelineAtRest
    /\ ExpiryAtRest
    /\ FlagsAtRest
    /\ LimiterAtRest

\* binaryResponse, err := parser.PackResponse(message)
Pack ==
    /\ ~packed.done
    /\ LET r == PackResponse(message)
       IN  packed' = [done |-> TRUE, err |-> r.err, bytes |-> r.bytes]
    /\ UNCHANGED <<message, reparsed, wire, unpacked>>
    /\ UNCHANGED <<serverVars, layerVars, pipeVars, ttlVars, flagVars, limitVars>>

\* parser.ParseRequest(binaryResponse)
Reparse ==
    /\ packed.done /\ ~packed.err
    /\ reparsed.kind = "none"
    /\ reparsed' = ParseRequest(packed.bytes)
    /\ UNCHANGED <<message, packed, wire, unpacked>>
    /\ UNCHANGED <<serverVars, layerVars, pipeVars, ttlVars, flagVars, limitVars>>

\* parser.ParseRequest(wire)
Unpack ==
    /\ unpacked.kind = "none"
    /\ unpacked' = ParseRequest(wire)
    /\ UNCHANGED <<message, packed, reparsed, wire>>
    /\ UNCHANGED <<serverVars, layerVars, pipeVars, ttlVars, flagVars, limitVars>>

NextCodec ==
    \/ Pack
    \/ Reparse
    \/ Unpack

SpecCodec == InitCodec /\ [][NextCodec]_vars

\* the same codec given also messages whose names recur inside RData and a
\* message that is longer than a 14-bit offset can address

\* TYPE NULL of RFC 1035 3.3.10: RData of any content, written as it is
TYPE_NULL == 10

\* a CNAME answer followed by the address record of its target
CNAMEChainMessage ==
    Msg([ZeroFlags EXCEPT !.QR = TRUE, !.AA = TRUE],
        << Q(NameA, TYPE_A) >>,
        << RR(NameA, TYPE_CNAME, MailExampleCom),
           RR(MailExampleCom, TYPE_A, << 192, 0, 2, 10 >>) >>)

\* MX, NS and PTR answers whose targets are names the message already holds
TargetsSeenMessage ==
    Msg([ZeroFlags EXCEPT !.QR = TRUE, !.AA = TRUE],
        << Q(MailExampleCom, TYPE_MX) >>,
        << RR(MailExampleCom, TYPE_MX, << 0, 10 >> \o Mx1ExampleCom),
           RR(MailExampleCom, TYPE_MX, << 0, 20 >> \o MailExampleCom),
           RR(MailExampleCom, TYPE_NS, Mx1ExampleCom),
           RR(NameB, TYPE_PTR, MailExampleCom) >>)

\* octets of RData that put the name of the next record at offset 16384 + 5:
\* header 12, question 7, owner pointer 2, fixed fields 10
LargeRDataLen == 16384 + 5 - 31

\* a NULL answer of that size, then two address records of the name b
LargeMessage ==
    Msg([ZeroFlags EXCEPT !.QR = TRUE],
        << Q(NameA, TYPE_NULL) >>,
        << RR(NameA, TYPE_NULL, [i \in 1..LargeRDataLen |-> 0]),
           RR(NameB, TYPE_A, << 192, 0, 2, 10 >>),
           RR(NameB, TYPE_A, << 192, 0, 2, 11 >>) >>)

PointerMessages == Messages \cup { CNAMEChainMessage, TargetsSeenMessage, LargeMessage }

InitPointers ==
    /\ pc = "Receive" /\ crash = "none" /\ ingestionDriver = "ok"
    /\ buffer = ZeroBuffer /\ datagram = <<>> /\ nread = 0 /\ readOk = TRUE
    /\ parsed = NotParsed /\ looked = NoLookup /\ response = NewResponse
    /\ currentMetric = NewMetric /\ sendOutcome = "none" /\ lastSent = <<>>
    /\ collects = 0 /\ submitted = Nil /\ droppedQR = FALSE /\ path = "none"
    /\ metricBuffer = <<>> /\ cache = <<>> /\ store = Rows
    /\ \/ message \in PointerMessages /\ wire = <<>>
       \/ message = ZeroRequest /\ wire \in Wires
    /\ packed = NotPacked
    /\ reparsed = NotParsed
    /\ unpacked = NotParsed
    /\ LayerAtRest
    /\ PipelineAtRest
    /\ ExpiryAtRest
    /\ FlagsAtRest
    /\ LimiterAtRest

SpecPointers == InitPointers /\ [][NextCodec]_vars

(* -------- the cache driver on its own (datastore: Redis over MySQL) ---- *)

\* How many calls are made on the cache driver in a checked behaviour.
MaxOps == 4

\* m[k] = v
Put(m, k, v) == [x \in (DOMAIN m) \cup {k} |-> IF x = k THEN v ELSE m[x]]

\* delete(m, k)
Without(m, k) == [x \in (DOMAIN m) \ {k} |-> m[x]]

\* func StringToType(s string) (uint16, error), on the mnemonics (decimal
\* texts are not among the model's inputs)
StringToType(t) ==
    CASE t = "A" -> [err |-> FALSE, value |-> 1]
      [] t = "NS" -> [err |-> FALSE, value |-> 2]
      [] t = "CNAME" -> [err |-> FALSE, value |-> 5]
      [] t = "SOA" -> [err |-> FALSE, value |-> 6]
      [] t = "MX" -> [err |-> FALSE, value |-> 15]
      [] t = "TXT" -> [err |-> FALSE, value |-> 16]
      [] t = "AAAA" -> [err |-> FALSE, value |-> 28]
      [] t = "SRV" -> [err |-> FALSE, value |-> 33]
      [] t = "PTR" -> [err |-> FALSE, value |-> 12]
      [] t = "ANY" -> [err |-> FALSE, value |-> 255]
      [] OTHER -> [err |-> TRUE, value |-> 0]

\* func StringToClass(s string) (uint16, error), on the mnemonics
StringToClass(c) ==
    IF c = "IN" THEN [err |-> FALSE, value |-> CLASS_IN]
    ELSE [err |-> TRUE, value |-> 0]

\* json.Marshal of a types.DBRecord read back by json.Unmarshal into a
\* types.CacheRecord: the fields name, type, class, ttl and rdata
CacheRecordOf(record) ==
    [ Name |-> record.Name, Type |-> record.Type, Class |-> record.Class,
      TTL |-> record.TTL, RData |-> record.RData ]

\* func (d *MySQLDriver) CreateRecord(record *types.DBRecord) error
\* dbErr: the INSERT fails.  The new row's deleted_at is NULL.
MySQLCreateRecord(rows, record, dbErr) ==
    IF dbErr THEN [err |-> TRUE, rows |-> rows]
    ELSE [err |-> FALSE, rows |-> rows \cup {[record EXCEPT !.Deleted = FALSE]}]

\* func (d *MySQLDriver) UpdateRecord(record *types.DBRecord) error
\* UPDATE ... WHERE id = ?: deleted_at is not among the columns set
MySQLUpdateRecord(rows, record, dbErr) ==
    IF dbErr THEN [err |-> TRUE, rows |-> rows]
    ELSE [err |-> FALSE,
          rows |-> {IF r.ID = record.ID THEN [record EXCEPT !.Deleted = r.Deleted] ELSE r
                    : r \in rows}]

\* Driver.DeleteRecord(id) of the MySQL driver: the row is soft-deleted
MySQLDeleteRecord(rows, id, dbErr) ==
    IF dbErr THEN [err |-> TRUE, rows |-> rows]
    ELSE [err |-> FALSE,
          rows |-> {IF r.ID = id THEN [r EXCEPT !.Deleted = TRUE] ELSE r : r \in rows}]

\* func (d *MySQLDriver) UpdateZone(zone *types.DBZone) error
\* UPDATE zones SET name = ?, updated_at = ?, deleted_at = ? WHERE id = ?
MySQLUpdateZone(zs, zone, dbErr) ==
    IF dbErr THEN [err |-> TRUE, zones |-> zs]
    ELSE [err |-> FALSE,
          zones |-> {IF z.ID = zone.ID
                     THEN [z EXCEPT !.Name = zone.Name, !.UpdatedAt = zone.UpdatedAt,
                                    !.Deleted = zone.Deleted,
                                    !.DeletedAt = zone.DeletedAt]
                     ELSE z
                     : z \in zs}]

\* func (d *RedisCacheDriver) CreateRecord(record *types.DBRecord) error
\* rows, cache: the table and the Redis content after the call
RedisCreateRecord(c, rows, record, dbErr, setErr) ==
    LET recordTypeUint == StringToType(record.Type)
        recordClassUint == StringToClass(record.Class)
        cacheKey == combineSearchPartsToKey(record.Name, recordTypeUint.value,
                                            recordClassUint.value)
        entry == [json |-> TRUE, rec |-> CacheRecordOf(record),
                  expiration |-> CacheTTL(record.TTL)]
        afterStore(w) ==
          IF w.err
          THEN [err |-> TRUE, rows |-> w.rows, cache |-> c, setCalled |-> FALSE]
          ELSE IF recordTypeUint.err \/ recordClassUint.err
          THEN [err |-> FALSE, rows |-> w.rows, cache |-> c, setCalled |-> FALSE]
          ELSE [err |-> FALSE, rows |-> w.rows,
                cache |-> IF setErr THEN c ELSE Put(c, cacheKey, entry),
                setCalled |-> TRUE]
    IN  afterStore(MySQLCreateRecord(rows, record, dbErr))

\* the text "192.0.2.11"
Addr2Text == << 49, 57, 50, 46, 48, 46, 50, 46, 49, 49 >>

\* the row the table holds from the start
RowA ==
    [ ID |-> "r1", ZoneID |-> "z1", Name |-> NameA, Type |-> "A", Class |-> "IN",
      TTL |-> 300, RData |-> AddrText, Deleted |-> FALSE ]

\* the record an admin creates (no TTL given)
RowB ==
    [ ID |-> "r2", ZoneID |-> "z1", Name |-> NameB, Type |-> "A", Class |-> "IN",
      TTL |-> 0, RData |-> AddrText, Deleted |-> FALSE ]

\* the record an admin update of r1 carries
RowAUpdated == [RowA EXCEPT !.TTL = 60, !.RData = Addr2Text]

\* the cache key of an A/IN query for the name
KeyOf(rname) == combineSearchPartsToKey(rname, TYPE_A, CLASS_IN)

\* Redis payloads left by an earlier format: no JSON, and JSON whose rdata
\* text is no address
InvalidPayload == [json |-> FALSE, rec |-> Nil, expiration |-> FiveMinutes]

BadRDataPayload ==
    [ json |-> TRUE,
      rec |-> [ Name |-> NameA, Type |-> "A", Class |-> "IN", TTL |-> 300,
                RData |-> BadText ],
      expiration |-> FiveMinutes ]

\* the rows of the table a query for the key selects
RowsOf(rows, key) ==
    {r \in rows : combineSearchPartsToKey(r.Name, StringToType(r.Type).value,
                                          StringToClass(r.Class).value) = key}

\* the parts of the codec at rest
CodecAtRest ==
    /\ message = ZeroRequest /\ wire = <<>> /\ packed = NotPacked
    /\ reparsed = NotParsed /\ unpacked = NotParsed

InitLayer ==
    /\ pc = "Receive" /\ crash = "none" /\ ingestionDriver = "ok"
    /\ buffer = ZeroBuffer /\ datagram = <<>> /\ nread = 0 /\ readOk = TRUE
    /\ parsed = NotParsed /\ looked = NoLookup /\ response = NewResponse
    /\ currentMetric = NewMetric /\ sendOutcome = "none" /\ lastSent = <<>>
    /\ collects = 0 /\ submitted = Nil /\ droppedQR = FALSE /\ path = "none"
    /\ metricBuffer = <<>>
    /\ store = {RowA}
    /\ cache \in { <<>>, Put(<<>>, KeyOf(NameA), InvalidPayload),
                   Put(<<>>, KeyOf(NameA), BadRDataPayload) }
    /\ CodecAtRest
    /\ LayerAtRest
    /\ PipelineAtRest
    /\ ExpiryAtRest
    /\ FlagsAtRest
    /\ LimiterAtRest

\* the server variables a call on the cache driver leaves alone
layerRest ==
    <<pc, crash, ingestionDriver, buffer, datagram, nread, readOk, parsed, looked,
      response, currentMetric, sendOutcome, lastSent, collects, submitted, droppedQR,
      path, metricBuffer, codecVars, pipeVars, ttlVars, flagVars, limitVars>>

\* cacheDriver.LookupRecordForDNSQuery(rname, TYPE_A, CLASS_IN)
LayerLookup(rname, getErr, dbErr, setErr) ==
    /\ nops < MaxOps
    /\ LET key == KeyOf(rname)
           returned(r) ==
             /\ cache' = r.cache
             /\ op' = [ kind |-> "lookup", key |-> key, err |-> r.err, rec |-> r.rec,
                        cacheHit |-> r.cacheHit, storeCalled |-> r.storeCalled,
                        getFailed |-> getErr, dbFailed |-> r.storeCalled /\ dbErr,
                        setFailed |-> r.setCalled /\ setErr, cacheBefore |-> cache,
                        record |-> Nil ]
             /\ missed' = IF r.storeCalled /\ ~r.err /\ r.rec # Nil
                          THEN Put(missed, key, [rec |-> r.rec, rows |-> RowsOf(store, key)])
                          ELSE missed
       IN  returned(RedisLookup(cache, store, rname, TYPE_A, CLASS_IN,
                                getErr, dbErr, setErr))
    /\ nops' = nops + 1
    /\ UNCHANGED <<store, zones, layerRest>>

\* cacheDriver.CreateRecord(record), for a name the table has no row of
LayerCreateRecord(record, dbErr, setErr) ==
    /\ nops < MaxOps
    /\ RowsOf(store, KeyOf(record.Name)) = {}
    /\ LET returned(r) ==
             /\ store' = r.rows
             /\ cache' = r.cache
             /\ op' = [ NoOp EXCEPT !.kind = "create", !.key = KeyOf(record.Name),
                                    !.err = r.err, !.dbFailed = dbErr,
                                    !.setFailed = r.setCalled /\ setErr,
                                    !.cacheBefore = cache, !.record = record ]
       IN  returned(RedisCreateRecord(cache, store, record, dbErr, setErr))
    /\ nops' = nops + 1
    /\ UNCHANGED <<zones, missed, layerRest>>

\* cacheDriver.UpdateRecord(record): the method of the embedded datastore.Driver
LayerUpdateRecord(record, dbErr) ==
    /\ nops < MaxOps
    /\ LET returned(r) ==
             /\ store' = r.rows
             /\ op' = [ NoOp EXCEPT !.kind = "update", !.key = KeyOf(record.Name),
                                    !.err = r.err, !.dbFailed = dbErr,
                                    !.cacheBefore = cache, !.record = record ]
       IN  returned(MySQLUpdateRecord(store, record, dbErr))
    /\ nops' = nops + 1
    /\ UNCHANGED <<cache, zones, missed, layerRest>>

\* cacheDriver.DeleteRecord(id): the method of the embedded datastore.Driver
LayerDeleteRecord(id, dbErr) ==
    /\ nops < MaxOps
    /\ \E row \in store :
         /\ row.ID = id
         /\ LET returned(r) ==
                  /\ store' = r.rows
                  /\ op' = [ NoOp EXCEPT !.kind = "deleteRecord",
                                         !.key = KeyOf(row.Name), !.err = r.err,
                                         !.dbFailed = dbErr,
                                         !.cacheBefore = cache, !.record = row ]
            IN  returned(MySQLDeleteRecord(store, id, dbErr))
    /\ nops' = nops + 1
    /\ UNCHANGED <<cache, zones, missed, layerRest>>

\* time.Now() in a handler: the calls made so far advance the clock
Now == nops + 1

\* DeleteZoneHandler: store.UpdateZone(&types.DBZone{ID: req.ZoneID,
\* UpdatedAt: time.Now(), DeletedAt: sql.NullTime{Time: time.Now(), Valid: true}})
LayerDeleteZone(id, dbErr) ==
    /\ nops < MaxOps
    /\ LET returned(r) ==
             /\ zones' = r.zones
             /\ op' = [ NoOp EXCEPT !.kind = "deleteZone", !.err = r.err,
                                    !.dbFailed = dbErr, !.cacheBefore = cache ]
       IN  returned(MySQLUpdateZone(zones,
                                    [NewDBZone EXCEPT !.ID = id, !.UpdatedAt = Now,
                                                      !.Deleted = TRUE,
                                                      !.DeletedAt = Now],
                                    dbErr))
    /\ nops' = nops + 1
    /\ UNCHANGED <<cache, store, missed, layerRest>>

\* Redis drops an entry whose expiration has passed
Expire(key) ==
    /\ key \in DOMAIN cache
    /\ cache' = Without(cache, key)
    /\ op' = [NoOp EXCEPT !.kind = "expire", !.key = key, !.cacheBefore = cache]
    /\ UNCHANGED <<store, zones, missed, nops, layerRest>>

NextLayer ==
    \/ \E rname \in {NameA, NameB}, getErr \in BOOLEAN, dbErr \in BOOLEAN,
          setErr \in BOOLEAN : LayerLookup(rname, getErr, dbErr, setErr)
    \/ \E dbErr \in BOOLEAN, setErr \in BOOLEAN : LayerCreateRecord(RowB, dbErr, setErr)
    \/ \E dbErr \in BOOLEAN : LayerUpdateRecord(RowAUpdated, dbErr)
    \/ \E dbErr \in BOOLEAN : LayerDeleteRecord("r1", dbErr)
    \/ \E dbErr \in BOOLEAN : LayerDeleteZone("z1", dbErr)
    \/ \E key \in {KeyOf(NameA), KeyOf(NameB)} : Expire(key)

SpecLayer == InitLayer /\ [][NextLayer]_vars

(* ------------- the expiration of a cache entry on its own -------------- *)

\* octet values the TTLs of the check are made of
TTLOctets == { 0, 1, 44, 127, 128, 255 }

\* the TTLs: four octets, most significant first (1, 44 is 300)
TTLs == { << a, b, c, d >> : a \in TTLOctets, b \in TTLOctets, c \in TTLOctets,
                             d \in TTLOctets }

InitExpiry ==
    /\ pc = "Receive" /\ crash = "none" /\ ingestionDriver = "ok"
    /\ buffer = ZeroBuffer /\ datagram = <<>> /\ nread = 0 /\ readOk = TRUE
    /\ parsed = NotParsed /\ looked = NoLookup /\ response = NewResponse
    /\ currentMetric = NewMetric /\ sendOutcome = "none" /\ lastSent = <<>>
    /\ collects = 0 /\ submitted = Nil /\ droppedQR = FALSE /\ path = "none"
    /\ metricBuffer = <<>>
    /\ cache = <<>>
    /\ store = Rows
    /\ CodecAtRest
    /\ LayerAtRest
    /\ PipelineAtRest
    /\ FlagsAtRest
    /\ LimiterAtRest
    /\ recordTTL \in TTLs
    /\ cacheExpiry = NoExpiry

\* LookupRecordForDNSQuery computes the expiration of the entry it sets
ExpiryOnMiss ==
    /\ cacheExpiry' = [by |-> "lookup", duration |-> cacheTTL(LittleEndian(recordTTL))]
    /\ UNCHANGED <<serverVars, codecVars, layerVars, pipeVars, recordTTL, flagVars,
                   limitVars>>

\* CreateRecord computes the expiration of the entry it sets
ExpiryOnCreate ==
    /\ cacheExpiry' = [by |-> "create", duration |-> cacheTTL(LittleEndian(recordTTL))]
    /\ UNCHANGED <<serverVars, codecVars, layerVars, pipeVars, recordTTL, flagVars,
                   limitVars>>

NextExpiry ==
    \/ ExpiryOnMiss
    \/ ExpiryOnCreate

SpecExpiry == InitExpiry /\ [][NextExpiry]_vars

(* ------------- the flags word on its own (types.go, part_010) ---------- *)

\* the values of the 4-bit fields Opcode and RCode in the check
Nibbles == { 0, 2, 15 }

\* the flag bundles of the check: every combination of the one-bit flags,
\* Z as the one bit it is in the header layout
FlagBundles ==
    [ QR : BOOLEAN, Opcode : Nibbles, AA : BOOLEAN, TC : BOOLEAN, RD : BOOLEAN,
      RA : BOOLEAN, Z : {0, 1}, AD : BOOLEAN, CD : BOOLEAN, RCode : Nibbles ]

InitFlags ==
    /\ pc = "Receive" /\ crash = "none" /\ ingestionDriver = "ok"
    /\ buffer = ZeroBuffer /\ datagram = <<>> /\ nread = 0 /\ readOk = TRUE
    /\ parsed = NotParsed /\ looked = NoLookup /\ response = NewResponse
    /\ currentMetric = NewMetric /\ sendOutcome = "none" /\ lastSent = <<>>
    /\ collects = 0 /\ submitted = Nil /\ droppedQR = FALSE /\ path = "none"
    /\ metricBuffer = <<>>
    /\ cache = <<>>
    /\ store = Rows
    /\ CodecAtRest
    /\ LayerAtRest
    /\ PipelineAtRest
    /\ ExpiryAtRest
    /\ flagBundle \in FlagBundles
    /\ flagRound = NoRound
    /\ LimiterAtRest

\* flags.ToUint16() and ParseFlags of the word
RoundTrip ==
    /\ ~flagRound.done
    /\ LET parsedWord(word) == [done |-> TRUE, word |-> word, flags |-> ParseFlags(word)]
       IN  flagRound' = parsedWord(ToUint16(flagBundle))
    /\ UNCHANGED <<serverVars, codecVars, layerVars, pipeVars, ttlVars, flagBundle,
                   limitVars>>

NextFlags == RoundTrip

SpecFlags == InitFlags /\ [][NextFlags]_vars

(* ---------- the rate limiter of the API on its own (middleware.go) ------ *)

\* rl.limit and rl.window (in ticks of the clock) of the limiter under check
Limit == 2

Window == 2

\* the last reading of the clock in one run
MaxClock == 3

\* r.RemoteAddr of the clients
Keys == { "192.0.2.1:5000", "192.0.2.2:5000" }

\* for _, reqTime := range requests { if now.Sub(reqTime) < rl.window {
\* validRequests = append(validRequests, reqTime) } }
Valid(times, now) == SelectSeq(times, LAMBDA reqTime : now - reqTime < Window)

\* rl.requests[ip] of a map read: the zero value for a key that is absent
RequestsOf(m, ip) == IF ip \in DOMAIN m THEN m[ip] ELSE <<>>

\* http.StatusTooManyRequests, and the status of a request that was passed
\* to next.ServeHTTP
StatusTooManyRequests == 429

StatusPassed == 200

InitLimiter ==
    /\ pc = "Receive" /\ crash = "none" /\ ingestionDriver = "ok"
    /\ buffer = ZeroBuffer /\ datagram = <<>> /\ nread = 0 /\ readOk = TRUE
    /\ parsed = NotParsed /\ looked = NoLookup /\ response = NewResponse
    /\ currentMetric = NewMetric /\ sendOutcome = "none" /\ lastSent = <<>>
    /\ collects = 0 /\ submitted = Nil /\ droppedQR = FALSE /\ path = "none"
    /\ metricBuffer = <<>>
    /\ cache = <<>>
    /\ store = Rows
    /\ CodecAtRest
    /\ LayerAtRest
    /\ PipelineAtRest
    /\ ExpiryAtRest
    /\ FlagsAtRest
    /\ LimiterAtRest

\* what a step of the rate limiter leaves alone
limitRest == <<serverVars, codecVars, layerVars, pipeVars, ttlVars, flagVars>>

\* time passes
Tick ==
    /\ apiServer = "serving"
    /\ clock < MaxClock
    /\ clock' = clock + 1
    /\ UNCHANGED <<requests, handlers, apiServer, limitRest>>

\* net/http starts a goroutine for request i (requests are numbered as they
\* arrive): ip := r.RemoteAddr; now := time.Now()
Arrive(i, ip) ==
    /\ apiServer = "serving"
    /\ handlers[i].at = "idle"
    /\ \A j \in 1..(i - 1) : handlers[j].at # "idle"
    /\ handlers' = [handlers EXCEPT ![i] = [NoHandler EXCEPT !.at = "lookup", !.ip = ip,
                                                            !.now = clock]]
    /\ UNCHANGED <<requests, clock, apiServer, limitRest>>

\* if requests, exists := rl.requests[ip]; exists
LookupRequests(i) ==
    /\ apiServer = "serving"
    /\ handlers[i].at = "lookup"
    /\ handlers' = [handlers EXCEPT
                      ![i].local = RequestsOf(requests, handlers[i].ip),
                      ![i].at = IF handlers[i].ip \in DOMAIN requests THEN "prune"
                                ELSE "check"]
    /\ UNCHANGED <<requests, clock, apiServer, limitRest>>

\* the loop over the slice that was read, and rl.requests[ip] = validRequests
Prune(i) ==
    /\ apiServer = "serving"
    /\ handlers[i].at = "prune"
    /\ requests' = Put(requests, handlers[i].ip, Valid(handlers[i].local, handlers[i].now))
    /\ handlers' = [handlers EXCEPT ![i].at = "check"]
    /\ UNCHANGED <<clock, apiServer, limitRest>>

\* if len(rl.requests[ip]) >= rl.limit { http.Error(w, ..., 429); return }
CheckLimit(i) ==
    /\ apiServer = "serving"
    /\ handlers[i].at = "check"
    /\ handlers' = IF Len(RequestsOf(requests, handlers[i].ip)) >= Limit
                   THEN [handlers EXCEPT ![i].at = "done",
                                         ![i].status = StatusTooManyRequests]
                   ELSE [handlers EXCEPT ![i].at = "append"]
    /\ UNCHANGED <<requests, clock, apiServer, limitRest>>

\* append(rl.requests[ip], now): the map is read
AppendNow(i) ==
    /\ apiServer = "serving"
    /\ handlers[i].at = "append"
    /\ handlers' = [handlers EXCEPT
                      ![i].local = Append(RequestsOf(requests, handlers[i].ip),
                                          handlers[i].now),
                      ![i].at = "assign"]
    /\ UNCHANGED <<requests, clock, apiServer, limitRest>>

\* rl.requests[ip] = (the appended slice); next.ServeHTTP(w, r)
AssignAndServe(i) ==
    /\ apiServer = "serving"
    /\ handlers[i].at = "assign"
    /\ requests' = Put(requests, handlers[i].ip, handlers[i].local)
    /\ handlers' = [handlers EXCEPT ![i].at = "done", ![i].status = StatusPassed]
    /\ UNCHANGED <<clock, apiServer, limitRest>>

\* the next step of the goroutine is a write of the map, a read of the map
Writes(h) == h.at \in { "prune", "assign" }

Reads(h) == h.at \in { "lookup", "check", "append" }

\* the map has no lock: when a goroutine writes it while another reads or
\* writes it, the runtime may stop the process (fatal error: concurrent map
\* writes / concurrent map read and map write)
ConcurrentMapAccess ==
    /\ apiServer = "serving"
    /\ \E i, j \in 1..MaxRequests :
          i # j /\ Writes(handlers[i]) /\ (Writes(handlers[j]) \/ Reads(handlers[j]))
    /\ apiServer' = "fatal"
    /\ UNCHANGED <<requests, clock, handlers, limitRest>>

NextLimiter ==
    \/ Tick
    \/ \E i \in 1..MaxRequests, ip \in Keys : Arrive(i, ip)
    \/ \E i \in 1..MaxRequests : LookupRequests(i)
    \/ \E i \in 1..MaxRequests : Prune(i)
    \/ \E i \in 1..MaxRequests : CheckLimit(i)
    \/ \E i \in 1..MaxRequests : AppendNow(i)
    \/ \E i \in 1..MaxRequests : AssignAndServe(i)
    \/ ConcurrentMapAccess

SpecLimiter == InitLimiter /\ [][NextLimiter]_vars

(* ------------- the ingestion driver on its own (part_003) -------------- *)

\* samples submitted in one run
MaxSamples == 7

\* the n-th sample submitted; samples differ in their response time
Sample(n) ==
    [ Success |-> 1, Domain |-> "N/A", QueryType |-> "N/A", CacheHit |-> 0,
      Rcode |-> 0, ErrorMessage |-> "", ResponseTimeMs |-> n ]

\* the test of the receive case as it would be with one more sample allowed
BatchFull_OneMore(b) == Len(b) > BatchSize

\* len(batch) >= d.batchSize
BatchFull(b) == Len(b) >= BatchSize

\* batchWriter.Send() on a batch of the clickhouse-go/v2 client: the first
\* call sends the appended rows (sendErr: the server refuses them), a call
\* on a batch that was sent already returns an error and sends nothing
batchWriterSend(snk, b, alreadySent, sendErr) ==
    LET result == IF alreadySent THEN "already sent"
                  ELSE IF sendErr THEN "refused" ELSE "ok"
    IN  [ err |-> result # "ok",
          sink |-> [snk EXCEPT !.sends = Append(@, [rows |-> b, result |-> result]),
                               !.batches = IF result = "ok" THEN Append(@, b) ELSE @] ]

\* flushes the server may refuse in one run
MaxRefused == 1

\* the Send calls so far that the server refused
Refused(snk) == Cardinality({ i \in DOMAIN snk.sends : snk.sends[i].result = "refused" })

\* func (d *ClickHouseIngestionDriver) writeBatch(batch []DNSMetric) error:
\* nothing for an empty batch, an error from PrepareBatch on a closed
\* connection; otherwise the rows are appended, `return batchWriter.Send()`
\* sends them and fixes the result, and the deferred batchWriter.Send() runs
\* after it
writeBatch(snk, b, sendErr) ==
    IF Len(b) = 0 THEN [err |-> FALSE, sink |-> snk]
    ELSE IF snk.closed THEN [err |-> TRUE, sink |-> snk]
    ELSE LET afterReturn(first) ==
               [err |-> first.err, sink |-> batchWriterSend(first.sink, b, TRUE, FALSE).sink]
         IN  afterReturn(batchWriterSend(snk, b, FALSE, sendErr))

\* type ClickHouseIngestionDriver struct: the fields that can change after
\* construction (logger, batchSize and batchInterval are set once)
Driver == [clickHouseDB |-> sink, metricBuffer |-> metricBuffer]

InitMetrics ==
    /\ pc = "Receive" /\ crash = "none" /\ ingestionDriver = "ok"
    /\ buffer = ZeroBuffer /\ datagram = <<>> /\ nread = 0 /\ readOk = TRUE
    /\ parsed = NotParsed /\ looked = NoLookup /\ response = NewResponse
    /\ currentMetric = NewMetric /\ sendOutcome = "none" /\ lastSent = <<>>
    /\ collects = 0 /\ submitted = Nil /\ droppedQR = FALSE /\ path = "none"
    /\ metricBuffer = <<>>
    /\ cache = <<>>
    /\ store = Rows
    /\ CodecAtRest
    /\ LayerAtRest
    /\ ExpiryAtRest
    /\ FlagsAtRest
    /\ LimiterAtRest
    /\ batch = <<>> /\ consumer = "select"
    /\ remainingBatch = <<>> /\ closer = "idle"
    /\ sink \in { NewSink(blocked) : blocked \in BOOLEAN }
    /\ submits = 0 /\ drops = 0 /\ atClose = <<>>

\* what a step of the ingestion driver leaves alone
pipeRest ==
    <<pc, crash, ingestionDriver, buffer, datagram, nread, readOk, parsed, looked,
      response, currentMetric, sendOutcome, lastSent, collects, submitted, droppedQR,
      path, cache, store, codecVars, layerVars, ttlVars, flagVars, limitVars>>

\* a producer calls Collect(metric); the receive loop is the only producer
\* and Close is deferred to its end, so no Collect is made once Close is called
Submit ==
    /\ closer = "idle"
    /\ submits < MaxSamples
    /\ metricBuffer' = Collect(metricBuffer, Sample(submits + 1))
    /\ submits' = submits + 1
    /\ drops' = IF metricBuffer' = metricBuffer THEN drops + 1 ELSE drops
    /\ UNCHANGED <<batch, consumer, remainingBatch, closer, sink, atClose, pipeRest>>

\* ProcessMetricsBatch: case metric := <-d.metricBuffer
ConsumerReceive ==
    /\ consumer = "select"
    /\ Len(metricBuffer) > 0
    /\ batch' = Append(batch, Head(metricBuffer))
    /\ metricBuffer' = Tail(metricBuffer)
    /\ consumer' = IF BatchFull(batch') THEN "write" ELSE "select"
    /\ UNCHANGED <<remainingBatch, closer, sink, submits, drops, atClose, pipeRest>>

TickFlushes_OnlyFull(b) == Len(b) >= BatchSize

\* ProcessMetricsBatch, case <-ticker.C: if len(batch) > 0
TickFlushes(b) == Len(b) > 0

\* ProcessMetricsBatch: case <-ticker.C
ConsumerTick ==
    /\ consumer = "select"
    /\ consumer' = IF TickFlushes(batch) THEN "write" ELSE "select"
    /\ UNCHANGED <<metricBuffer, batch, remainingBatch, closer, sink, submits, drops,
                   atClose, pipeRest>>

\* ProcessMetricsBatch: d.writeBatch(batch) returns (with or without an
\* error) and batch = nil; the call does not return while the sink is blocked
ConsumerWrite(sendErr) ==
    /\ consumer = "write"
    /\ ~sink.blocked \/ sink.closed
    /\ sendErr => Refused(sink) < MaxRefused /\ ~sink.closed
    /\ sink' = writeBatch(sink, batch, sendErr).sink
    /\ batch' = <<>>
    /\ consumer' = "select"
    /\ UNCHANGED <<metricBuffer, remainingBatch, closer, submits, drops, atClose,
                   pipeRest>>

\* Close is called: if len(d.metricBuffer) > 0
CloseCalled ==
    /\ closer = "idle"
    /\ atClose' = metricBuffer
    /\ closer' = IF Len(metricBuffer) > 0 THEN "loop" ELSE "closing"
    /\ UNCHANGED <<metricBuffer, batch, consumer, remainingBatch, sink, submits,
                   drops, pipeRest>>

\* Close: for len(d.metricBuffer) > 0, and if len(remainingBatch) > 0 after it
CloseLoop ==
    /\ closer = "loop"
    /\ closer' = IF Len(metricBuffer) > 0 THEN "receive"
                 ELSE IF Len(remainingBatch) > 0 THEN "write" ELSE "closing"
    /\ UNCHANGED <<metricBuffer, batch, consumer, remainingBatch, sink, submits,
                   drops, atClose, pipeRest>>

\* Close: remainingBatch = append(remainingBatch, <-d.metricBuffer); the
\* receive waits while the channel is empty
CloseReceive ==
    /\ closer = "receive"
    /\ Len(metricBuffer) > 0
    /\ remainingBatch' = Append(remainingBatch, Head(metricBuffer))
    /\ metricBuffer' = Tail(metricBuffer)
    /\ closer' = "loop"
    /\ UNCHANGED <<batch, consumer, sink, submits, drops, atClose, pipeRest>>

\* Close: d.writeBatch(remainingBatch) returns
CloseWrite(sendErr) ==
    /\ closer = "write"
    /\ ~sink.blocked
    /\ sendErr => Refused(sink) < MaxRefused
    /\ sink' = writeBatch(sink, remainingBatch, sendErr).sink
    /\ closer' = "closing"
    /\ UNCHANGED <<metricBuffer, batch, consumer, remainingBatch, submits, drops,
                   atClose, pipeRest>>

\* Close: d.clickHouseDB.Close()
CloseSink ==
    /\ closer = "closing"
    /\ sink' = [sink EXCEPT !.closed = TRUE]
    /\ closer' = "closed"
    /\ UNCHANGED <<metricBuffer, batch, consumer, remainingBatch, submits, drops,
                   atClose, pipeRest>>

NextMetrics ==
    \/ Submit
    \/ ConsumerReceive
    \/ ConsumerTick
    \/ \E sendErr \in BOOLEAN : ConsumerWrite(sendErr)
    \/ CloseCalled
    \/ CloseLoop
    \/ CloseReceive
    \/ \E sendErr \in BOOLEAN : CloseWrite(sendErr)
    \/ CloseSink

SpecMetrics == InitMetrics /\ [][NextMetrics]_vars

\* the driver between its construction and the deferred Close: producers
\* call Collect and the goroutine started by NewClickHouseIngestionDriver
\* runs its loop
NextRunning ==
    \/ Submit
    \/ ConsumerReceive
    \/ ConsumerTick
    \/ \E sendErr \in BOOLEAN : ConsumerWrite(sendErr)

\* the goroutine is scheduled, its select takes a ready case (a waiting
\* sample, a tick of the ticker), and a writeBatch call on a sink that
\* answers returns
SpecRunning ==
    /\ InitMetrics
    /\ [][NextRunning]_vars
    /\ WF_vars(ConsumerReceive)
    /\ WF_vars(ConsumerTick)
    /\ WF_vars(\E sendErr \in BOOLEAN : ConsumerWrite(sendErr))

(* ------------------- what is on the wire (RFC 1035) ------------------- *)

\* a response was written to the socket in the current iteration
Sent == sendOutcome = "sent"

SentID == lastSent[1] * 256 + lastSent[2]

SentQR == lastSent[3] >= 128

SentOpcode == (lastSent[3] \div 8) % 16

SentAA == (lastSent[3] \div 4) % 2 = 1

SentRA == lastSent[4] >= 128

SentZ == (lastSent[4] \div 16) % 8

SentRCode == lastSent[4] % 16

SentANCount == lastSent[7] * 256 + lastSent[8]

SentQDCount == lastSent[5] * 256 + lastSent[6]

SentNSCount == lastSent[9] * 256 + lastSent[10]

SentARCount == lastSent[11] * 256 + lastSent[12]

\* the labels of a dotted name
Labels(name) == SelectSeq(Split(name), LAMBDA part : part # <<>>)

\* RFC 1035 4.1.4: where the name that starts at offset ends in the message
\* (after its zero octet or its pointer); -1 when it runs past the end
RECURSIVE WireNameEnd(_, _)
WireNameEnd(bytes, offset) ==
    IF offset >= Len(bytes) THEN -1
    ELSE IF At(bytes, offset) = 0 THEN offset + 1
    ELSE IF At(bytes, offset) >= 192
    THEN IF offset + 2 <= Len(bytes) THEN offset + 2 ELSE -1
    ELSE WireNameEnd(bytes, offset + 1 + At(bytes, offset))

\* the labels of the name that starts at offset, pointers followed (at most
\* fuel labels and pointers)
RECURSIVE WireName(_, _, _)
WireName(bytes, offset, fuel) ==
    IF fuel = 0 \/ offset >= Len(bytes) THEN <<>>
    ELSE LET l == At(bytes, offset) IN
         IF l = 0 THEN <<>>
         ELSE IF l >= 192
         THEN IF offset + 1 >= Len(bytes) THEN <<>>
              ELSE WireName(bytes, (l % 64) * 256 + At(bytes, offset + 1), fuel - 1)
         ELSE IF offset + 1 + l > Len(bytes) THEN <<>>
         ELSE << Slice(bytes, offset + 1, offset + 1 + l) >>
              \o WireName(bytes, offset + 1 + l, fuel - 1)

WireU16(bytes, offset) == At(bytes, offset) * 256 + At(bytes, offset + 1)

WireFail == [ok |-> FALSE, items |-> <<>>, offset |-> 0]

\* RFC 1035 4.1.2: n question entries from offset
RECURSIVE WireQuestions(_, _, _)
WireQuestions(bytes, offset, n) ==
    IF n = 0 THEN [ok |-> TRUE, items |-> <<>>, offset |-> offset]
    ELSE LET e == WireNameEnd(bytes, offset) IN
         IF e < 0 \/ e + 4 > Len(bytes) THEN WireFail
         ELSE LET rest == WireQuestions(bytes, e + 4, n - 1)
                  entry == [ Name  |-> WireName(bytes, offset, Len(bytes)),
                             Type  |-> WireU16(bytes, e),
                             Class |-> WireU16(bytes, e + 2) ]
              IN  [ok |-> rest.ok, items |-> << entry >> \o rest.items,
                   offset |-> rest.offset]

\* RFC 1035 4.1.3: n resource records from offset
RECURSIVE WireRecords(_, _, _)
WireRecords(bytes, offset, n) ==
    IF n = 0 THEN [ok |-> TRUE, items |-> <<>>, offset |-> offset]
    ELSE LET e == WireNameEnd(bytes, offset) IN
         IF e < 0 \/ e + 10 > Len(bytes) THEN WireFail
         ELSE LET rdlength == WireU16(bytes, e + 8) IN
              IF e + 10 + rdlength > Len(bytes) THEN WireFail
              ELSE LET rest == WireRecords(bytes, e + 10 + rdlength, n - 1)
                       entry == [ Name  |-> WireName(bytes, offset, Len(bytes)),
                                  Type  |-> WireU16(bytes, e),
                                  Class |-> WireU16(bytes, e + 2),
                                  TTL   |-> WireU16(bytes, e + 4) * 65536
                                            + WireU16(bytes, e + 6),
                                  RData |-> Slice(bytes, e + 10, e + 10 + rdlength),
                                  RDataAt |-> e + 10 ]
                   IN  [ok |-> rest.ok, items |-> << entry >> \o rest.items,
                        offset |-> rest.offset]

\* RFC 1035 4.1: the four sections of a message, each decoded with the count
\* its header gives; ok when the entries end where the message ends
Wire(bytes) ==
    IF Len(bytes) < 12
    THEN [ok |-> FALSE, questions |-> <<>>, answers |-> <<>>, authority |-> <<>>,
          additional |-> <<>>]
    ELSE
      LET qd == WireQuestions(bytes, 12, WireU16(bytes, 4))
          an == IF qd.ok THEN WireRecords(bytes, qd.offset, WireU16(bytes, 6)) ELSE WireFail
          ns == IF an.ok THEN WireRecords(bytes, an.offset, WireU16(bytes, 8)) ELSE WireFail
          ar == IF ns.ok THEN WireRecords(bytes, ns.offset, WireU16(bytes, 10)) ELSE WireFail
      IN  [ok |-> ar.ok /\ ar.offset = Len(bytes),
           questions |-> qd.items, answers |-> an.items, authority |-> ns.items,
           additional |-> ar.items]

\* a DNSRecord as it reads on the wire when its RData is written as it is
OnWire(rec, rdataAt) ==
    [ Name |-> Labels(rec.Name), Type |-> rec.Type, Class |-> rec.Class,
      TTL |-> rec.TTL, RData |-> rec.RData, RDataAt |-> rdataAt ]

\* the header fields of the datagram that was read, from its own octets
DatagramID == datagram[1] * 256 + datagram[2]

DatagramHasQR == Len(datagram) >= 3 /\ datagram[3] >= 128

DatagramOpcode == (datagram[3] \div 8) % 16

\* the iteration for the datagram has ended and the loop is about to read again
IterationEnded == pc = "Receive" /\ nread > 0

(* ------------------------------- claims ------------------------------- *)

\* C1: between two reads the loop calls Collect exactly once for the datagram
\* it read, unless it dropped the datagram at the QR check (then not at all);
\* Collect is never called twice for a datagram nor without a datagram.
C1_CollectOncePerDatagram ==
    /\ collects <= 1
    /\ (collects = 1) = (submitted # Nil)
    /\ collects = 1 => (nread > 0 /\ ~droppedQR /\ pc = "Receive")
    /\ IterationEnded => collects = (IF droppedQR THEN 0 ELSE 1)
    /\ Len(metricBuffer) <= nread

\* C1 witness: the iteration of an answer whose socket write failed has ended
\* with one Collect call.
C1_Witness ==
    /\ IterationEnded
    /\ path = "answer"
    /\ sendOutcome = "writeerr"
    /\ collects = 1

\* the RCODE the stage table gives for the outcome of the stages
StageRCode ==
    IF parsed.kind = "err" THEN 1
    ELSE IF Len(parsed.request.Questions) = 0 THEN 1
    ELSE IF looked.err THEN 2
    ELSE IF looked.rec = Nil THEN 3
    ELSE 0

\* C2: the RCODE on the wire is the one of the stage table (1 for a parse
\* failure or no question, 2 for a lookup error, 3 for not found, else 0),
\* the sample has Success 0 in the first three cases and Success 1 for a
\* sent RCODE 0 response.
C2_StageTable ==
    /\ Sent => (SentRCode = StageRCode /\ SentRCode \in {0, 1, 2, 3})
    /\ submitted # Nil =>
          /\ StageRCode # 0 => (submitted.Success = 0 /\ submitted.Rcode = StageRCode)
          /\ (StageRCode = 0 /\ Sent) => (submitted.Success = 1 /\ submitted.Rcode = 0)

\* C2 witness: a lookup that found nothing was answered with RCODE 3 and its
\* sample was submitted.
C2_Witness ==
    /\ Sent
    /\ looked.made /\ ~looked.err /\ looked.rec = Nil
    /\ SentRCode = 3
    /\ submitted # Nil

\* the question section of the octets that were sent
SentQuestions == ParseRequest(lastSent).request.Questions

\* C3: every response sent carries the ID of the datagram it answers and,
\* when the datagram parsed, its question section.
C3_ResponseEchoesIdAndQuestions ==
    Sent => /\ SentID = DatagramID
            /\ parsed.kind = "ok" => SentQuestions = parsed.request.Questions

\* C4: a datagram shorter than 12 octets is answered with RCODE 1 and its
\* sample has Success 0.
C4_ShortDatagramIsFormErr ==
    Len(datagram) < 12 =>
        /\ Sent => SentRCode = 1
        /\ IterationEnded => (sendOutcome # "none" /\ submitted # Nil
                              /\ submitted.Success = 0)

\* what ParseRequest returns for the datagram in a run in which no datagram
\* was received before it
ParsedAlone == ParseRequest(ReadFromUDP(ZeroBuffer, datagram))

\* C5: the request parsed for a datagram, and the kind of response sent for
\* it, are those of a run that received no datagram before it.
C5_IndependentOfEarlierDatagrams ==
    parsed.kind # "none" =>
        /\ parsed = ParsedAlone
        /\ (Sent /\ ParsedAlone.kind = "err") => SentRCode = 1

\* C6: ParseRequest returns (a request or an error) for every buffer; it
\* never recurses without bound on a pointer cycle.
C6_ParseTerminates ==
    /\ parsed.kind \in {"none", "ok", "err"}
    /\ crash # "stack overflow"

\* C7: the server loop never stops while handling a datagram.
C7_LoopNeverCrashes ==
    pc # "Crashed"

\* C8, as stated: a datagram whose header has the QR bit set gets no
\* response and no sample.
C8_QRDatagramDropped ==
    DatagramHasQR => (sendOutcome = "none" /\ collects = 0 /\ submitted = Nil)

\* C8, amended: a datagram whose header has the QR bit set and that
\* ParseRequest accepts gets no response and no sample, and the loop goes on
\* to the next read.
C8_ParsedQRDatagramDropped ==
    (DatagramHasQR /\ parsed.kind = "ok") =>
        /\ sendOutcome = "none" /\ lastSent = <<>>
        /\ collects = 0 /\ submitted = Nil
        /\ pc \in {"Validate", "Receive"}
        /\ pc = "Receive" => droppedQR

\* C8 witness: a parsed datagram with QR set was dropped and the loop is
\* back at the read.
C8_Witness ==
    /\ IterationEnded
    /\ DatagramHasQR
    /\ parsed.kind = "ok"
    /\ droppedQR

\* C9: every response sent has QR=1, RA=0, Z=0; AA=1 exactly when it is an
\* answer (RCODE 0 with an answer record), AA=0 with RCODE 1, 2 and 3.
C9_ResponseFlags ==
    Sent => /\ SentQR
            /\ ~SentRA
            /\ SentZ = 0
            /\ SentAA = (SentRCode = 0 /\ SentANCount >= 1)
            /\ SentAA = (looked.made /\ ~looked.err /\ looked.rec # Nil)
            /\ SentRCode \in {1, 2, 3} => ~SentAA

\* C9 witness: an answer with AA=1 was sent.
C9_Witness ==
    /\ Sent
    /\ SentAA
    /\ SentRCode = 0
    /\ SentANCount = 1

\* C10: every response to a datagram that parsed carries the Opcode of the
\* datagram.
C10_OpcodeEchoed ==
    (Sent /\ parsed.kind = "ok") => SentOpcode = DatagramOpcode

\* the record the store holds for the first question of the parsed request
FirstQuestionRecord ==
    LET q == parsed.request.Questions[1]
    IN  MySQLLookup(store, q.Name, q.Type, q.Class, FALSE).rec

\* C11: a response with RCODE 0 holds exactly one answer record, the store's
\* record for the first question of the request; a response with another
\* RCODE holds no answer, authority or additional record; no response holds
\* a second answer.
C11_OnlyFirstQuestionAnswered ==
    Sent =>
      LET w == Wire(lastSent) IN
      /\ w.ok
      /\ Len(w.answers) <= 1
      /\ SentRCode = 0 =>
            /\ Len(w.answers) = 1
            /\ parsed.kind = "ok" /\ Len(parsed.request.Questions) >= 1
            /\ FirstQuestionRecord # Nil
            /\ w.answers[1] = OnWire(FirstQuestionRecord, w.answers[1].RDataAt)
            /\ w.answers[1].Name = Labels(parsed.request.Questions[1].Name)
      /\ SentRCode # 0 =>
            /\ w.answers = <<>> /\ w.authority = <<>> /\ w.additional = <<>>
            /\ SentANCount = 0 /\ SentNSCount = 0 /\ SentARCount = 0

\* C11 witness: a request whose first question has no record and whose second
\* question has one was answered with RCODE 3 and no answer record.
C11_Witness ==
    /\ Sent
    /\ parsed.kind = "ok" /\ Len(parsed.request.Questions) = 2
    /\ FirstQuestionRecord = Nil
    /\ LET q == parsed.request.Questions[2]
       IN  MySQLLookup(store, q.Name, q.Type, q.Class, FALSE).rec # Nil
    /\ SentRCode = 3
    /\ Wire(lastSent).answers = <<>>

\* C12: in every response sent, decoding QDCount questions and then ANCount,
\* NSCount and ARCount records ends exactly at the end of the datagram, and
\* the counts are those of the sections the response was packed from.
C12_CountsMatchSections ==
    Sent =>
      LET w == Wire(lastSent) IN
      /\ w.ok
      /\ SentQDCount = Len(w.questions) /\ SentQDCount = Len(response.Questions)
      /\ SentANCount = Len(w.answers) /\ SentANCount = Len(response.Answers)
      /\ SentNSCount = Len(w.authority) /\ SentNSCount = Len(response.Authority)
      /\ SentARCount = Len(w.additional) /\ SentARCount = Len(response.Additional)

\* C12 witness: a response with two questions and one answer was sent.
C12_Witness ==
    /\ Sent
    /\ SentQDCount = 2 /\ Len(Wire(lastSent).questions) = 2
    /\ SentANCount = 1 /\ Len(Wire(lastSent).answers) = 1

\* C13: when the write to the socket fails, the sample submitted for the
\* datagram has Success 0 and Rcode 2, whatever branch composed the response.
C13_WriteFailureSample ==
    (sendOutcome = "writeerr" /\ submitted # Nil) =>
        (submitted.Success = 0 /\ submitted.Rcode = 2)

\* C14: when PackResponse fails nothing is written to the socket, the sample
\* submitted for the datagram has Success 0, and the loop goes on to the
\* next read.
C14_PackFailure ==
    sendOutcome = "packerr" =>
        /\ lastSent = <<>>
        /\ pc \in {"Emit", "Receive"} \/ crash = "nil dereference"
        /\ currentMetric.Success = 0
        /\ submitted # Nil => submitted.Success = 0
        /\ IterationEnded => (collects = 1 /\ submitted # Nil)

\* C14 witness: a record was found for a name with a 64-octet label, packing
\* the answer failed, and the loop is back at the read with the sample
\* submitted.
C14_Witness ==
    /\ IterationEnded
    /\ path = "answer"
    /\ sendOutcome = "packerr"
    /\ lastSent = <<>>
    /\ submitted # Nil /\ submitted.Success = 0

\* what the store returns for the question of the lookup of this iteration
StoreResult ==
    LET q == question(parsed.request)
    IN  MySQLLookup(store, q.Name, q.Type, q.Class, looked.dbErr)

\* C20: the lookup through the cache returns an error, and the client gets
\* RCODE 2, only when the store lookup fails; when the read of the cache
\* fails the outcome is the store's.
C20_CacheFailuresNeverSurface ==
    looked.made =>
        /\ looked.err => StoreResult.err
        /\ looked.getErr =>
              (looked.err = StoreResult.err /\ looked.rec = StoreResult.rec)
        /\ (Sent /\ SentRCode = 2) => StoreResult.err

\* the length octets of the labels of the name at offset, up to its zero
\* octet, its pointer or the end of the buffer
RECURSIVE NameLabelOctets(_, _)
NameLabelOctets(bytes, offset) ==
    IF offset >= Len(bytes) THEN <<>>
    ELSE LET l == At(bytes, offset) IN
         IF l = 0 \/ l >= 192 THEN <<>>
         ELSE << l >> \o NameLabelOctets(bytes, offset + 1 + l)

\* the octets a name with these label lengths takes on the wire
RECURSIVE ComposedLength(_)
ComposedLength(octets) ==
    IF octets = <<>> THEN 1 ELSE 1 + Head(octets) + ComposedLength(Tail(octets))

\* the name of the first question of wire has a label above 63 octets
HasLongLabel == \E i \in DOMAIN NameLabelOctets(wire, 12) : NameLabelOctets(wire, 12)[i] > 63

\* the name of the first question of wire takes more than 255 octets
NameTooLong == ComposedLength(NameLabelOctets(wire, 12)) > 255

\* wire is a header with QDCount = 1 and one complete question whose name is
\* a sequence of labels ended by a zero octet
OnePlainQuestion ==
    /\ Len(wire) >= 12 /\ WireU16(wire, 4) = 1
    /\ WireQuestions(wire, 12, 1).ok
    /\ At(wire, WireNameEnd(wire, 12) - 1) = 0

\* C15: ParseRequest returns an error for a question name with a label
\* above 63 octets (no pointer) and for one of more than 255 octets, and
\* accepts a complete question whose name is within both limits.
C15_NameLimits ==
    (unpacked.kind # "none" /\ Len(wire) >= 12 /\ WireU16(wire, 4) >= 1) =>
        /\ (HasLongLabel \/ NameTooLong) => unpacked.kind = "err"
        /\ (OnePlainQuestion /\ ~HasLongLabel /\ ~NameTooLong) => unpacked.kind = "ok"

\* wire ends before the questions its header counts are complete
RunsPastEnd ==
    Len(wire) < 12 \/ ~WireQuestions(wire, 12, WireU16(wire, 4)).ok

\* C16: ParseRequest reads no position at or beyond len(buffer), and returns
\* an error when a label, a pointer or the type and class fields run past
\* the end of the buffer.
C16_ReadsWithinBuffer ==
    /\ unpacked.kind # "none" =>
          /\ unpacked.top < Len(wire)
          /\ RunsPastEnd => unpacked.kind = "err"
    /\ reparsed.kind # "none" => reparsed.top < Len(packed.bytes)

\* C16 witness: ParseRequest read the last octet of the buffer, the first
\* octet of a pointer, and returned an error.
C16_Witness ==
    /\ Len(wire) > 12
    /\ unpacked.kind = "err"
    /\ unpacked.top = Len(wire) - 1
    /\ At(wire, Len(wire) - 1) >= 192

\* C17: ParseRequest applied to the octets PackResponse returned for a
\* message returns that message: header, questions and answers.
C17_ParsePackRoundTrip ==
    reparsed.kind # "none" =>
        /\ reparsed.kind = "ok"
        /\ reparsed.request.Header = message.Header
        /\ reparsed.request.Questions = message.Questions
        /\ reparsed.request.Answers = message.Answers

\* the octets of message with every name written in full and every record
\* written, as RFC 1035 4.1 lays them out
RECURSIVE FullLength(_)
FullLength(entries) ==
    IF entries = <<>> THEN 0
    ELSE LET e == Head(entries)
             name == ComposedLength([i \in DOMAIN Labels(e.Name) |-> Len(Labels(e.Name)[i])])
         IN  (IF "RData" \in DOMAIN e THEN name + 10 + Len(e.RData) ELSE name + 4)
             + FullLength(Tail(entries))

\* C18: PackResponse returns at most 512 octets; when the records of the
\* message do not fit, TC is set in the packed header and the octets end
\* where a record ends.
C18_AtMost512Octets ==
    (packed.done /\ ~packed.err) =>
        /\ Len(packed.bytes) <= 512
        /\ (12 + FullLength(message.Questions) + FullLength(message.Answers) > 512
              => (packed.bytes[3] \div 2) % 2 = 1)

\* the offset at which the last k labels of the name written at offset start
RECURSIVE SuffixOffset(_, _, _)
SuffixOffset(labels, offset, k) ==
    IF Len(labels) <= k THEN offset
    ELSE SuffixOffset(Tail(labels), offset + 1 + Len(Head(labels)), k)

\* labels as length-prefixed octets
RECURSIVE LabelOctets(_)
LabelOctets(labels) ==
    IF labels = <<>> THEN <<>>
    ELSE << Len(Head(labels)) >> \o Head(labels) \o LabelOctets(Tail(labels))

\* the target of the MX answer of message shares a proper suffix of k labels
\* with the question name, which is written first, at offset 12
SharedSuffix(k) ==
    LET target == Labels(SubSeq(message.Answers[1].RData, 3, Len(message.Answers[1].RData)))
        qname  == Labels(message.Questions[1].Name)
    IN  /\ k >= 1 /\ k < Len(target) /\ k <= Len(qname)
        /\ SubSeq(target, Len(target) - k + 1, Len(target))
             = SubSeq(qname, Len(qname) - k + 1, Len(qname))

\* C19: the target of an MX answer that shares a proper suffix with the
\* question name is written as its leading labels and a pointer to the
\* offset of the suffix in the question name, and the message is shorter
\* than with the target written in full.
C19_SuffixCompression ==
    (/\ packed.done /\ ~packed.err
     /\ Len(message.Questions) = 1 /\ Len(message.Answers) = 1
     /\ message.Answers[1].Type = TYPE_MX
     /\ message.Answers[1].Name = message.Questions[1].Name) =>
        \A k \in 1..2 :
            (SharedSuffix(k) /\ ~SharedSuffix(k + 1)) =>
                LET target == Labels(SubSeq(message.Answers[1].RData, 3,
                                            Len(message.Answers[1].RData)))
                    qname  == Labels(message.Questions[1].Name)
                    w      == Wire(packed.bytes)
                IN  /\ w.ok /\ Len(w.answers) = 1
                    /\ w.answers[1].RData =
                          SubSeq(message.Answers[1].RData, 1, 2)
                          \o LabelOctets(SubSeq(target, 1, Len(target) - k))
                          \o U16(49152 + SuffixOffset(qname, 12, k))
                    /\ Len(w.answers[1].RData) < 2 + Len(LabelOctets(target)) + 1

\* the Redis payload of the key parses: it is JSON and its rdata text converts
ValidEntry(c, key) ==
    /\ key \in DOMAIN c
    /\ c[key].json
    /\ ~ConvertRDataStringToBytes(key[2], c[key].rec.RData).err

\* the last call was a lookup that got from Redis a payload it could not parse
FoundUnparseable ==
    /\ op.kind = "lookup"
    /\ ~op.getFailed
    /\ op.key \in DOMAIN op.cacheBefore
    /\ ~ValidEntry(op.cacheBefore, op.key)

\* C21: a lookup that finds an unparseable payload deletes the key, consults
\* the store, returns what the store returns and, as a miss does, leaves a
\* valid entry for the key when the store has the record.
C21_UnparseableEntryRepopulated ==
    FoundUnparseable =>
        /\ op.storeCalled
        /\ op.err = MySQLLookup(store, op.key[1], op.key[2], op.key[3], op.dbFailed).err
        /\ op.rec = MySQLLookup(store, op.key[1], op.key[2], op.key[3], op.dbFailed).rec
        /\ op.key \in DOMAIN cache => cache[op.key] # op.cacheBefore[op.key]
        /\ (~op.err /\ op.rec # Nil) => ValidEntry(cache, op.key)

\* C22: while the rows of the key are what they were when a lookup read them
\* from the store, a lookup served from the cache returns the same record.
C22_HitEqualsMiss ==
    ( /\ op.kind = "lookup"
      /\ op.cacheHit = 1
      /\ op.key \in DOMAIN missed
      /\ missed[op.key].rows = RowsOf(store, op.key) )
    => op.rec = missed[op.key].rec

C22_Witness ==
    /\ op.kind = "lookup"
    /\ op.cacheHit = 1
    /\ op.key \in DOMAIN missed
    /\ missed[op.key].rows = RowsOf(store, op.key)
    /\ op.rec # Nil
    /\ op.rec.TTL = 0

\* C23: after a record deletion has completed the cache holds no entry for the
\* record's key, and no lookup served from the cache returns a deleted row.
C23_DeletionInvalidatesKey ==
    /\ (op.kind = "deleteRecord" /\ ~op.err) => op.key \notin DOMAIN cache
    /\ (op.kind = "lookup" /\ op.cacheHit = 1) =>
           \A r \in RowsOf(store, op.key) : ~r.Deleted

\* C24: a create or update that fails in the persistent store returns the
\* error and leaves the cache as it was; one that succeeds, and whose cache
\* write succeeds, leaves the new record in the cache under its key.
C24_WriteThroughAfterPersist ==
    op.kind \in {"create", "update"} =>
        /\ op.dbFailed => (op.err /\ cache = op.cacheBefore)
        /\ (~op.dbFailed /\ ~op.setFailed) =>
               /\ ~op.err
               /\ op.key \in DOMAIN cache
               /\ cache[op.key].json
               /\ cache[op.key].rec = CacheRecordOf(op.record)

\* the zone of the row is soft-deleted
ZoneDeleted(r) == \E z \in zones : z.ID = r.ZoneID /\ z.Deleted

\* C25: a lookup that reads the store returns no record whose row, or whose
\* zone, is soft-deleted.
C25_NoDeletedRecordReturned ==
    (op.kind = "lookup" /\ op.storeCalled /\ op.rec # Nil) =>
        \A r \in RowsOf(store, op.key) : ~r.Deleted /\ ~ZoneDeleted(r)

\* C26: a lookup whose cache or store call does not return is ended by the
\* per-request deadline, so the server is never left in the call: while the
\* loop waits for the store it still has a step to take (the SERVFAIL answer
\* and then the next datagram)
C26_LookupNeverStalls == pc = "InStoreCall" => ENABLED Next

\* Collect was called in this step
Collected == submits' = submits + 1

\* C27: Collect never blocks: a producer can always complete its call,
\* whatever the batching goroutine is doing (also while it waits in a write
\* to a blocked sink); the call drops the sample when the channel holds
\* 2 * BatchSize samples and enqueues it otherwise; the channel never holds
\* more than 2 * BatchSize samples
C27_CollectNeverBlocks ==
    /\ [](Len(metricBuffer) <= 2 * BatchSize)
    /\ []((closer = "idle" /\ submits < MaxSamples) => ENABLED Submit)
    /\ [][Collected =>
            IF Len(metricBuffer) = 2 * BatchSize
            THEN metricBuffer' = metricBuffer
            ELSE metricBuffer' = Append(metricBuffer, Sample(submits'))]_vars

\* a sample was dropped while the batching goroutine waits in a write to a
\* blocked sink and the channel is full
C27_Witness ==
    /\ sink.blocked /\ consumer = "write"
    /\ Len(metricBuffer) = 2 * BatchSize
    /\ drops > 0 /\ submits < MaxSamples

\* C28: every sample Collect drops is counted inside the driver: a call that
\* finds the channel full leaves the driver in a state that differs from the
\* one before the call (its dropped-counter is one higher)
C28_DropIsCounted ==
    [][(Collected /\ Len(metricBuffer) = 2 * BatchSize) => Driver' # Driver]_vars

\* samples are submitted to a driver whose sink is blocked, and Close has
\* not been called
BurstOnBlockedSink == closer = "idle" /\ sink.blocked

\* C29 as stated: of the samples submitted while the sink is blocked all but
\* C = 2 * BatchSize are dropped, in every interleaving
C29_BurstDropsAllButCapacity ==
    BurstOnBlockedSink => drops >= submits - 2 * BatchSize

\* C29: while the sink is blocked no Collect call blocks, and of the samples
\* submitted all but C + BatchSize are dropped, in every interleaving: the
\* channel keeps C of them and the batching goroutine up to BatchSize, which
\* it received before its write blocked
C29_BurstDropsAllButCapacityAndBatch ==
    BurstOnBlockedSink =>
        /\ submits < MaxSamples => ENABLED Submit
        /\ drops >= submits - 2 * BatchSize - BatchSize

\* the whole burst was submitted to a blocked sink, the batching goroutine
\* waits in its write, and exactly C + BatchSize samples were not dropped
C29_Witness ==
    /\ BurstOnBlockedSink /\ submits = MaxSamples /\ consumer = "write"
    /\ drops = MaxSamples - 3 * BatchSize /\ drops > 0

\* the sample is in a batch for which Send was called on the sink
Flushed(sample) ==
    \E i \in DOMAIN sink.sends :
        \E j \in DOMAIN sink.sends[i].rows : sink.sends[i].rows[j] = sample

\* C30: Close closes the sink only after the final flush has returned: once
\* the sink is closed, every sample that was in the channel when Close was
\* called has been handed to the sink in a flush
C30_CloseFlushesBeforeClosing ==
    sink.closed => \A k \in DOMAIN atClose : Flushed(atClose[k])

\* the batching goroutine goes from its select into writeBatch
FlushStarts == consumer = "select" /\ consumer' = "write"

\* the batching goroutine comes back from writeBatch
FlushReturns == consumer = "write" /\ consumer' = "select"

\* C31: the batching goroutine writes a batch only when the batch has reached
\* BatchSize with the sample just received, or when the timer fired and the
\* batch is non-empty; it never writes an empty batch, its batch never holds
\* more than BatchSize samples, and the batch is empty right after a flush
C31_FlushAtSizeOrTick ==
    /\ [](Len(batch) <= BatchSize)
    /\ [](consumer = "write" => Len(batch) > 0)
    /\ [][FlushStarts =>
            \/ /\ Len(metricBuffer) > 0
               /\ metricBuffer' = Tail(metricBuffer)
               /\ batch' = Append(batch, Head(metricBuffer))
               /\ Len(batch') = BatchSize
            \/ /\ metricBuffer' = metricBuffer
               /\ batch' = batch /\ Len(batch) > 0]_vars
    /\ [][FlushReturns => batch' = <<>>]_vars

\* before Close, the sink has received a batch of BatchSize samples and a
\* smaller one flushed by the timer, and the goroutine's batch is empty
C31_Witness ==
    /\ closer = "idle" /\ batch = <<>>
    /\ \E i \in DOMAIN sink.batches : Len(sink.batches[i]) = BatchSize
    /\ \E j \in DOMAIN sink.batches : Len(sink.batches[j]) < BatchSize

\* the samples of a batch
SamplesOf(b) == { b[j] : j \in DOMAIN b }

\* C32: a failed flush discards its batch: no sample of a batch the server
\* refused is stored by the sink afterwards, and every sample is handed to
\* the sink in at most one Send call (one send per flushed batch)
C32_FailedBatchDiscardedOneSend ==
    /\ \A i \in DOMAIN sink.sends :
          sink.sends[i].result = "refused" =>
              \A k \in DOMAIN sink.batches :
                  SamplesOf(sink.sends[i].rows) \cap SamplesOf(sink.batches[k]) = {}
    /\ \A i \in DOMAIN sink.sends : \A j \in DOMAIN sink.sends :
          i # j => SamplesOf(sink.sends[i].rows) \cap SamplesOf(sink.sends[j].rows) = {}

\* the last call was a lookup that missed the cache and for which the store
\* returned no record
MissedEverywhere ==
    /\ op.kind = "lookup" /\ ~op.getFailed
    /\ op.key \notin DOMAIN op.cacheBefore
    /\ op.storeCalled /\ ~op.err /\ op.rec = Nil

\* C33: a lookup that misses the cache and finds no record in the store
\* leaves the cache as it was: no entry is written for the key, and the next
\* lookup of the same key goes to the store again
C33_NegativeResultNotCached ==
    MissedEverywhere =>
        /\ cache = op.cacheBefore
        /\ op.key \notin DOMAIN cache
        /\ RedisLookup(cache, store, op.key[1], op.key[2], op.key[3],
                       FALSE, FALSE, FALSE).storeCalled

\* a lookup of a name without record missed the cache while the cache held
\* an entry for another key
C33_Witness == MissedEverywhere /\ DOMAIN cache # {}

\* n seconds in nanoseconds, exact, for the little-endian octets of n
SecondsOf(octets) == Product(octets, Second)

\* x <= y for unsigned numbers of eight octets, least significant first
LessEq(x, y) ==
    x = y \/ \E k \in 1..8 : x[k] < y[k] /\ \A j \in (k + 1)..8 : x[j] = y[j]

\* 300, in four octets, least significant first
ThreeHundred == << 44, 1, 0, 0 >>

\* max(record.TTL, 300) for the TTL of the state, least significant first
MaxOfTTLAnd300 ==
    IF recordTTL[1] > 0 \/ recordTTL[2] > 0 \/ recordTTL[3] > 1
       \/ (recordTTL[3] = 1 /\ recordTTL[4] >= 44)
    THEN LittleEndian(recordTTL) ELSE ThreeHundred

\* C34: on a miss with a store hit and on a write-through create the entry
\* is set with an expiration of record.TTL seconds when TTL > 0 and of 300
\* seconds when TTL is 0, a positive duration that is never above
\* max(record.TTL, 300 s), for every 32-bit TTL
C34_ExpirationIsTTLOr300 ==
    cacheExpiry.by # "none" =>
        /\ cacheExpiry.duration =
              IF recordTTL = << 0, 0, 0, 0 >> THEN SecondsOf(ThreeHundred)
              ELSE SecondsOf(LittleEndian(recordTTL))
        /\ ~NonPositive(cacheExpiry.duration)
        /\ LessEq(cacheExpiry.duration, SecondsOf(MaxOfTTLAnd300))

\* CreateRecord has computed the expiration for the largest 32-bit TTL
C34_Witness ==
    /\ cacheExpiry.by = "create"
    /\ recordTTL = << 255, 255, 255, 255 >>
    /\ cacheExpiry.duration # FiveMinutes

\* the flags word of a bundle in the layout QR(1), Opcode(4), AA(1), TC(1),
\* RD(1), RA(1), Z(1), AD(1), CD(1), RCode(4), from the most significant bit
LaidOut(f) ==
    B(f.QR) * 32768 + f.Opcode * 2048 + B(f.AA) * 1024 + B(f.TC) * 512
    + B(f.RD) * 256 + B(f.RA) * 128 + f.Z * 64 + B(f.AD) * 32 + B(f.CD) * 16
    + f.RCode

\* C35: the flags word is laid out as QR, Opcode, AA, TC, RD, RA, Z, AD, CD,
\* RCode from the most significant bit, and ParseFlags(f.ToUint16()) = f for
\* every flag bundle f, also with AD or CD set
C35_FlagsRoundTrip ==
    flagRound.done =>
        /\ flagRound.word = LaidOut(flagBundle)
        /\ flagRound.flags = flagBundle

\* the name fields of n records from offset of the packed octets, each with
\* the name of the message it was written for: the owner name, and the
\* name inside the RData of a CNAME, NS, PTR or MX record
RECURSIVE RecordNameFields(_, _, _, _)
RecordNameFields(bytes, records, i, offset) ==
    IF i > Len(records) THEN <<>>
    ELSE LET e == WireNameEnd(bytes, offset)
             rdlength == WireU16(bytes, e + 8)
             inRData == IF records[i].Type \in {TYPE_CNAME, TYPE_NS, TYPE_PTR}
                        THEN << [at |-> e + 10, name |-> records[i].RData] >>
                        ELSE IF records[i].Type = TYPE_MX
                        THEN << [at |-> e + 12,
                                 name |-> SubSeq(records[i].RData, 3,
                                                 Len(records[i].RData))] >>
                        ELSE <<>>
         IN  << [at |-> offset, name |-> records[i].Name] >> \o inRData
             \o RecordNameFields(bytes, records, i + 1, e + 10 + rdlength)

\* the name fields of the questions from offset, then those of the answers
RECURSIVE NameFields(_, _, _, _)
NameFields(bytes, m, i, offset) ==
    IF i > Len(m.Questions) THEN RecordNameFields(bytes, m.Answers, 1, offset)
    ELSE << [at |-> offset, name |-> m.Questions[i].Name] >>
         \o NameFields(bytes, m, i + 1, WireNameEnd(bytes, offset) + 4)

\* the field holds a compression pointer
IsPointer(bytes, field) == At(bytes, field.at) >= 192

\* RFC 1035 4.1.4: the offset a pointer refers to, its low 14 bits
Target(bytes, field) == (At(bytes, field.at) % 64) * 256 + At(bytes, field.at + 1)

\* PackResponse returned the octets of the message
Packed == packed.done /\ ~packed.err

\* C36: every compression pointer PackResponse emits, for an owner name or
\* inside CNAME, NS, PTR or MX RData, refers to an offset that is at least
\* 12, lies before the pointer, and is where the labels of that same name
\* are written in full
C36_PointersReferBack ==
    Packed =>
        \A k \in DOMAIN NameFields(packed.bytes, message, 1, 12) :
            LET field == NameFields(packed.bytes, message, 1, 12)[k] IN
            IsPointer(packed.bytes, field) =>
                /\ Target(packed.bytes, field) >= 12
                /\ Target(packed.bytes, field) < field.at
                /\ At(packed.bytes, Target(packed.bytes, field)) < 192
                /\ WireName(packed.bytes, Target(packed.bytes, field), 128)
                      = Labels(field.name)

\* Collect accepted sample n and no flush has held it yet: it waits in the
\* channel or in the batch of the consumer
Waiting(n) ==
    \/ \E i \in DOMAIN metricBuffer : metricBuffer[i] = Sample(n)
    \/ \E i \in DOMAIN batch : batch[i] = Sample(n)

\* C37: with a ticker that keeps firing and a sink whose calls return, every
\* sample Collect accepted is eventually part of a flush attempt of the
\* running driver (sent or refused with its batch), so a batch smaller than
\* BatchSize does not wait for further samples
C37_AcceptedIsEventuallyFlushed ==
    \A n \in 1..MaxSamples :
        (Waiting(n) /\ ~sink.blocked) ~> Flushed(Sample(n))

\* the ticker flushed a batch smaller than BatchSize while the driver runs
\* and nothing further waits
C37_Witness ==
    /\ closer = "idle" /\ ~sink.blocked
    /\ metricBuffer = <<>> /\ batch = <<>>
    /\ \E i \in DOMAIN sink.sends :
          /\ Len(sink.sends[i].rows) < BatchSize
          /\ \E n \in 1..MaxSamples : sink.sends[i].rows = << Sample(n) >>

\* Close waits in <-d.metricBuffer on an empty channel; no Collect is made
\* once Close is called, so nothing will arrive
CloseBlocked == closer = "receive" /\ metricBuffer = <<>>

\* the sink is closed while the batching goroutine holds samples it has not
\* written
LostInBatch == sink.closed /\ batch # <<>>

\* the batching goroutine is about to call writeBatch on the closed sink
WriteAfterClose == sink.closed /\ consumer = "write"

\* C38: Close is safe beside the batching goroutine, in every interleaving:
\* Close does not wait for ever on a channel the goroutine has emptied, no
\* accepted sample is left in the goroutine's unflushed batch when the sink
\* is closed, and the goroutine makes no write to the sink after Close has
\* closed it
C38_CloseSafeBesideConsumer ==
    /\ ~CloseBlocked
    /\ ~LostInBatch
    /\ ~WriteAfterClose

\* DeleteZoneHandler made its UpdateZone call and the statement was executed
ZoneSoftDeleted == op'.kind = "deleteZone" /\ nops' = nops + 1 /\ ~op'.err

\* C39: a soft delete of a zone through DeleteZoneHandler changes only the
\* deletion and update timestamps of the zone: its name and its owner are
\* the same afterwards and none of the records is removed or changed
C39_SoftDeleteKeepsNameOwnerRecords ==
    [][ZoneSoftDeleted =>
          /\ store' = store
          /\ \A z \in zones : \E y \in zones' :
                /\ y.ID = z.ID
                /\ y.Name = z.Name
                /\ y.Owner = z.Owner]_vars

\* the requests of a client key that were passed on and whose time lies in
\* the window that ends at t
PassedIn(key, t) ==
    { i \in 1..MaxRequests :
        /\ handlers[i].status = StatusPassed
        /\ handlers[i].ip = key
        /\ t - handlers[i].now < Window
        /\ handlers[i].now <= t }

\* every window of a client key holds at most Limit passed requests
AtMostLimitPass ==
    \A key \in Keys, t \in 0..MaxClock : Cardinality(PassedIn(key, t)) <= Limit

\* the passed requests of the key of request i whose times are less than
\* Window away from the time of i
PassedNear(i) ==
    { j \in 1..MaxRequests :
        /\ handlers[j].status = StatusPassed
        /\ handlers[j].ip = handlers[i].ip
        /\ handlers[j].now - handlers[i].now < Window
        /\ handlers[i].now - handlers[j].now < Window }

\* a request is answered 429 only when Limit requests of its key that are
\* not older than the window were passed
RejectedOnlyAtLimit ==
    \A i \in 1..MaxRequests :
        handlers[i].status = StatusTooManyRequests =>
            Cardinality(PassedNear(i)) >= Limit

\* C40: the rate limiter passes at most Limit requests of a client key
\* within any window of length Window and answers the others with 429, also
\* when requests of the same key are handled concurrently; a request older
\* than the window no longer counts
C40_AtMostLimitPerWindow ==
    /\ AtMostLimitPass
    /\ RejectedOnlyAtLimit

====
